---- MODULE Spec2Model ----
(***************************************************************************)
(* AWS account lifecycle: the create-account and close-account workflows   *)
(* of src/src/main.py, with the helpers of account_creator.py,             *)
(* account_closer.py and ssm_client.py, run against a model of the         *)
(* provider (Organizations, SSM Parameter Store).                          *)
(*                                                                         *)
(* Strings that the code converts (the stored counter, account names,      *)
(* emails) are sequences of one-character strings.  An absent or empty     *)
(* optional string is <<>> or "" (both are falsy in the code's tests); an  *)
(* absent optional integer is <<>> and a present one is <<n>>.             *)
(***************************************************************************)
EXTENDS Integers, Sequences, FiniteSets, TLC

\* ---------------------------------------------------------------- bounds
MaxAttempts == 2
MaxValidationAttempts == 4
MaxMoves == 2
MaxOus == 3
MaxCloses == 2
MaxMembers == 5
MaxListed == 3
MaxRuns == 2
MaxRunsConc == 3

\* ------------------------------------------------------- program constants
NameLimit == 60
PollInterval == 5
ValidationAttempts == 6
ValidationInitialDelay == 5
ValidationMaxDelay == 30

\* ---------------------------------------------------------------- strings
Digits == <<"0", "1", "2", "3", "4", "5", "6", "7", "8", "9">>
Uppers == <<"A", "B", "C", "D", "E", "F", "G", "H", "I", "J", "K", "L", "M", "N", "O", "P", "Q", "R", "S", "T", "U", "V", "W", "X", "Y", "Z">>
Lowers == <<"a", "b", "c", "d", "e", "f", "g", "h", "i", "j", "k", "l", "m", "n", "o", "p", "q", "r", "s", "t", "u", "v", "w", "x", "y", "z">>

Range(s) == {s[i] : i \in 1..Len(s)}
IndexOf(s, c) == CHOOSE i \in 1..Len(s) : s[i] = c
IsDigit(c) == c \in Range(Digits)
DigitVal(c) == IndexOf(Digits, c) - 1
Whitespace == {" ", "\t", "\n"}

RECURSIVE NatStr(_)
NatStr(n) == IF n < 10 THEN <<Digits[n + 1]>>
             ELSE Append(NatStr(n \div 10), Digits[(n % 10) + 1])

\* str(n) of a Python int
Str(n) == IF n < 0 THEN <<"-">> \o NatStr(0 - n) ELSE NatStr(n)

RECURSIVE LStrip(_, _)
LStrip(s, drop) == IF s # <<>> /\ Head(s) \in drop THEN LStrip(Tail(s), drop) ELSE s

RECURSIVE RStrip(_, _)
RStrip(s, drop) == IF s # <<>> /\ s[Len(s)] \in drop
                   THEN RStrip(SubSeq(s, 1, Len(s) - 1), drop) ELSE s

\* str.strip(): drop the characters of `drop` from both ends
Strip(s, drop) == RStrip(LStrip(s, drop), drop)

RECURSIVE DigitsVal(_, _)
DigitsVal(s, acc) == IF s = <<>> THEN acc
                     ELSE DigitsVal(Tail(s), acc * 10 + DigitVal(Head(s)))

\* int(s) of Python on the alphabet the model stores: surrounding whitespace
\* is dropped, one sign is allowed, then one or more decimal digits.
\* [ok |-> FALSE] stands for ValueError.
ParseInt(s) ==
    LET t == Strip(s, Whitespace)
        signed == t # <<>> /\ Head(t) \in {"+", "-"}
        d == IF signed THEN Tail(t) ELSE t
    IN IF d # <<>> /\ \A i \in 1..Len(d) : IsDigit(d[i])
       THEN [ok |-> TRUE,
             val |-> IF signed /\ Head(t) = "-" THEN 0 - DigitsVal(d, 0)
                     ELSE DigitsVal(d, 0)]
       ELSE [ok |-> FALSE, val |-> 0]

\* ------------------------------------------------------ email generation
LowerChar(c) == IF c \in Range(Uppers) THEN Lowers[IndexOf(Uppers, c)] ELSE c
\* the class [a-z0-9-] of the substitution pattern
IsSafeChar(c) == c \in Range(Lowers) \/ IsDigit(c) \/ c = "-"

RECURSIVE CollapseHyphens(_)
CollapseHyphens(s) ==
    IF Len(s) < 2 THEN s
    ELSE IF s[1] = "-" /\ s[2] = "-" THEN CollapseHyphens(Tail(s))
    ELSE <<Head(s)>> \o CollapseHyphens(Tail(s))

Truncate(s, n) == IF Len(s) > n THEN SubSeq(s, 1, n) ELSE s

sanitize_account_name(name) ==
    LET lowered == Strip([i \in 1..Len(name) |-> LowerChar(name[i])], Whitespace)
        replaced == [i \in 1..Len(lowered) |->
                        IF IsSafeChar(lowered[i]) THEN lowered[i] ELSE "-"]
    IN Truncate(Strip(CollapseHyphens(replaced), {"-"}), NameLimit)

Prefix == <<"w">>
Domain == <<"c", ".", "x">>

\* the configuration of the runs: its email section
DefaultConfig == [email |-> [prefix |-> Prefix, domain |-> Domain]]

\* an address built from the name as it was given
generate_email_RawName(config, unique_number, account_name) ==
    config.email.prefix \o <<"+">> \o Str(unique_number) \o <<"-">>
           \o account_name \o <<"@">> \o config.email.domain

generate_email(config, unique_number, account_name) ==
    LET email_config == config.email
        prefix == email_config.prefix
        domain == email_config.domain
        safe_name == sanitize_account_name(account_name)
    IN prefix \o <<"+">> \o Str(unique_number) \o <<"-">> \o safe_name \o <<"@">> \o domain

\* --------------------------------------------------------------- provider
VARIABLES
    ssm,        \* the stored parameter: [exists, value] (value: its String)
    requests,   \* creation requests, indexed by request id
    accounts,   \* the organization's accounts, in listing order
    ous         \* the organizational units, in listing order

VARIABLES
    run,        \* per process: the run's position, inputs and locals
    runs,       \* number of runs started so far
    lastPut     \* the last put_parameter: what was observed, stored, returned

vars == <<ssm, requests, accounts, ous, run, runs, lastPut>>
provider == <<ssm, requests, accounts, ous>>

Root == "r-1"
MgmtId == 1

OuChildren(t, parent) == SelectSeq(t, LAMBDA o : o.parent = parent)

\* find_ou_by_name: depth-first, an OU before its descendants, descendants
\* before later siblings.  ou = "" stands for None; listed are the parents
\* whose children were listed, in order.
RECURSIVE SearchOu(_, _, _), SearchKids(_, _, _, _)
SearchOu(t, name, parent) == SearchKids(t, name, OuChildren(t, parent), <<parent>>)
SearchKids(t, name, kids, listed) ==
    IF kids = <<>> THEN [ou |-> "", name |-> "", listed |-> listed]
    ELSE IF Head(kids).name = name
         THEN [ou |-> Head(kids).id, name |-> Head(kids).name, listed |-> listed]
    ELSE LET child == SearchOu(t, name, Head(kids).id)
         IN IF child.ou # ""
            THEN [ou |-> child.ou, name |-> child.name,
                  listed |-> listed \o child.listed]
            ELSE SearchKids(t, name, Tail(kids), listed \o child.listed)

\* a search that looks at all the OUs of a parent before descending into any
RECURSIVE SiblingsFirst(_, _, _)
SiblingsFirst(t, name, parents) ==
    IF parents = <<>> THEN [ou |-> "", name |-> "", listed |-> <<>>]
    ELSE LET kids == OuChildren(t, Head(parents))
             hits == SelectSeq(kids, LAMBDA o : o.name = name)
         IN IF hits # <<>>
            THEN [ou |-> Head(hits).id, name |-> Head(hits).name,
                  listed |-> <<Head(parents)>>]
            ELSE LET rest == SiblingsFirst(t, name,
                                [i \in 1..Len(kids) |-> kids[i].id] \o Tail(parents))
                 IN [rest EXCEPT !.listed = <<Head(parents)>> \o @]

find_ou_by_name_SiblingsFirst(t, name) == SiblingsFirst(t, name, <<Root>>)

find_ou_by_name(t, name) == SearchOu(t, name, Root)

AccountIndex(accts, id) == CHOOSE i \in 1..Len(accts) : accts[i].id = id
HasAccount(accts, id) == \E i \in 1..Len(accts) : accts[i].id = id
EmailTaken(accts, email) == \E i \in 1..Len(accts) : accts[i].email = email

\* The provider finishes a creation request on its own schedule: the account
\* appears under the root with a fresh id, unless its email is already in use.
ProviderSucceed(r) ==
    /\ requests[r].state = "IN_PROGRESS"
    /\ ~EmailTaken(accounts, requests[r].email)
    /\ LET id == Len(accounts) + 1
       IN /\ accounts' = Append(accounts,
                [id |-> id, name |-> requests[r].name, email |-> requests[r].email,
                 status |-> "ACTIVE", parent |-> Root, closing |-> FALSE])
          /\ requests' = [requests EXCEPT ![r].state = "SUCCEEDED", ![r].acct = id]
    /\ UNCHANGED <<ssm, ous, run, runs, lastPut>>

ProviderFail(r) ==
    /\ requests[r].state = "IN_PROGRESS"
    /\ requests' = [requests EXCEPT ![r].state = "FAILED"]
    /\ UNCHANGED <<ssm, accounts, ous, run, runs, lastPut>>

\* ------------------------------------------------------------ run records
Procs == {"p1", "p2"}

IdleRun ==
    [pc |-> "idle", cmd |-> "", cfg |-> [dry_run |-> FALSE],
     uniq |-> <<>>, email |-> <<>>, reqId |-> 0, fetches |-> <<>>, acct |-> 0,
     skip_ou |-> FALSE, ou_id |-> "", ou_name |-> "",
     vattempt |-> 0, vlast |-> "", delay |-> 0, validated |-> FALSE,
     target |-> 0, active |-> <<>>, skipped |-> <<>>, idx |-> 0,
     closed |-> <<>>, failed |-> <<>>,
     sleeps |-> <<>>, calls |-> <<>>, moves |-> <<>>, docs |-> <<>>, exit |-> 0,
     error |-> ""]

Call(who, api) == [who |-> who, api |-> api]
Ended(r) == r.pc \in {"idle", "done", "aborted"}
\* an exit that prints a document describing the error first
Abort_Reporting(r, why) ==
    [r EXCEPT !.pc = "aborted", !.exit = 1, !.error = why,
              !.docs = Append(@, [kind |-> "error", error |-> why])]

\* sys.exit(1)
Abort(r, why) == [r EXCEPT !.pc = "aborted", !.exit = 1, !.error = why]
Finish(r, doc) == [r EXCEPT !.pc = "done", !.exit = 0, !.docs = Append(@, doc)]
Become(p, r) == run' = [run EXCEPT ![p] = r]

Names == {<<"M", "y", " ", "A">>, <<"c", "!">>}
OverrideEmail == <<"o", "@", "x">>

\* the merged configuration and arguments of a create-account invocation
CreateConfigsOf(names, overrides, ou_names, ou_ids, dry_runs, attempts) ==
    [account_name : names, email_override : overrides,
     default_ou_name : ou_names, ou_id : ou_ids,
     dry_run : dry_runs, max_attempts : attempts, interval : {PollInterval}]

CreateConfigs ==
    CreateConfigsOf(Names, {<<>>, OverrideEmail}, {"", "Prod", "Nope"}, {"", "ou-a"},
                    BOOLEAN, {MaxAttempts})

\* ------------------------------------------------------------- sessions
\* Python's None for an argument that was not given
None == "None"
\* the arguments `if x:` takes for absent
Falsy(x) == x \in {None, ""}

NoSession == [kind |-> "none", profile |-> None, credentials |-> None, region |-> None]
StsCall(api, region, role, name) ==
    [who |-> "sts", api |-> api, region |-> region, role_arn |-> role, session_name |-> name]

\* a lookup that tries the role before the profile
get_session_RoleFirst(profile_name, role_arn, region_name, session_name, sts) ==
    IF ~Falsy(role_arn)
    THEN [calls |-> <<StsCall("client", region_name, None, None),
                      StsCall("assume_role", None, role_arn, session_name)>>,
          raised |-> ~sts.ok,
          session |-> IF sts.ok
                      THEN [kind |-> "keys", profile |-> None,
                            credentials |-> sts.credentials, region |-> region_name]
                      ELSE NoSession]
    ELSE IF ~Falsy(profile_name)
    THEN [calls |-> <<>>, raised |-> FALSE,
          session |-> [kind |-> "profile", profile |-> profile_name,
                       credentials |-> None, region |-> region_name]]
    ELSE [calls |-> <<>>, raised |-> FALSE,
          session |-> [kind |-> "ambient", profile |-> None,
                       credentials |-> None, region |-> region_name]]

\* ssm_client.get_session; sts is what assume_role answers: the temporary
\* credentials, or an error that the function lets through
get_session(profile_name, role_arn, region_name, session_name, sts) ==
    IF ~Falsy(profile_name)
    THEN [calls |-> <<>>, raised |-> FALSE,
          session |-> [kind |-> "profile", profile |-> profile_name,
                       credentials |-> None, region |-> region_name]]
    ELSE IF ~Falsy(role_arn)
    THEN [calls |-> <<StsCall("client", region_name, None, None),
                      StsCall("assume_role", None, role_arn, session_name)>>,
          raised |-> ~sts.ok,
          session |-> IF sts.ok
                      THEN [kind |-> "keys", profile |-> None,
                            credentials |-> sts.credentials, region |-> region_name]
                      ELSE NoSession]
    ELSE [calls |-> <<>>, raised |-> FALSE,
          session |-> [kind |-> "ambient", profile |-> None,
                       credentials |-> None, region |-> region_name]]

\* ---------------------------------------------------------- configuration
\* config.REQUIRED_FIELDS
REQUIRED_FIELDS == <<"ssm_parameter_path">>

\* the fields of REQUIRED_FIELDS that config.get finds absent or empty
MissingFields(config) ==
    SelectSeq(REQUIRED_FIELDS, LAMBDA f : Falsy(config[f]))

Accepted(config) == [outcome |-> "returned", config |-> config, error |-> ""]
Exit1(why) == [outcome |-> "exit", config |-> None, error |-> why]

\* the checks left after the email section (kind: absent, null or map): a
\* section that is present but null has no .get, and the AttributeError is
\* not caught
EmailSectionCheck(config) ==
    IF config.email.kind = "absent" THEN Exit1("email.domain")
    ELSE IF config.email.kind = "null"
    THEN [outcome |-> "raised", config |-> None, error |-> "AttributeError"]
    ELSE IF Falsy(config.email.domain) THEN Exit1("email.domain")
    ELSE IF Falsy(config.email.prefix) THEN Exit1("email.prefix")
    ELSE Accepted(config)

\* a validation that looks at the email override before the management identity
validate_config_OverrideFirst(config) ==
    IF ~Falsy(config.email_override) THEN Accepted(config)
    ELSE IF Falsy(config.mgmt_profile) /\ Falsy(config.management_role_arn)
    THEN Exit1("mgmt_access")
    ELSE IF MissingFields(config) # <<>> THEN Exit1("required_fields")
    ELSE IF Falsy(config.automation_profile) /\ Falsy(config.automation_role_arn)
    THEN Exit1("automation_access")
    ELSE EmailSectionCheck(config)

\* config.validate_config; a key that is absent reads None
validate_config(config) ==
    IF Falsy(config.mgmt_profile) /\ Falsy(config.management_role_arn)
    THEN Exit1("mgmt_access")
    ELSE IF ~Falsy(config.email_override) THEN Accepted(config)
    ELSE IF MissingFields(config) # <<>> THEN Exit1("required_fields")
    ELSE IF Falsy(config.automation_profile) /\ Falsy(config.automation_role_arn)
    THEN Exit1("automation_access")
    ELSE EmailSectionCheck(config)

\* --------------------------------------------------------- create-account
\* a read that takes a missing or unreadable parameter for zero
read_unique_number_ZeroOnError(store) ==
    IF ~store.exists THEN [ok |-> TRUE, val |-> 0, error |-> ""]
    ELSE LET n == ParseInt(store.value)
         IN [ok |-> TRUE, val |-> IF n.ok THEN n.val ELSE 0, error |-> ""]

\* ssm_client.read_unique_number on the store
read_unique_number(store) ==
    IF ~store.exists THEN [ok |-> FALSE, val |-> 0, error |-> "ssm_not_found"]
    ELSE LET n == ParseInt(store.value)
         IN [ok |-> n.ok, val |-> n.val, error |-> IF n.ok THEN "" ELSE "ssm_invalid"]

StoredNumber(store) == ParseInt(store.value).val

\* main.py 27-49: the merged, validated configuration and the arguments
StartCreate(p, c, limit) ==
    /\ Ended(run[p])
    /\ runs < limit
    /\ runs' = runs + 1
    /\ Become(p, [IdleRun EXCEPT !.pc = "phase0", !.cmd = "create", !.cfg = c])
    /\ UNCHANGED <<provider, lastPut>>

\* Phase 0: the management session and identity
ResolveManagement(p) ==
    /\ run[p].pc = "phase0"
    /\ Become(p, [run[p] EXCEPT !.pc = "phase1",
                    !.calls = @ \o <<Call("mgmt", "get_session"),
                                     Call("mgmt", "get_caller_identity")>>])
    /\ UNCHANGED <<provider, runs, lastPut>>

\* an override run that still reads the counter before using the given email
UseEmailOverride_ReadingCounter(p) ==
    /\ run[p].pc = "phase1"
    /\ run[p].cfg.email_override # <<>>
    /\ LET got == read_unique_number(ssm)
       IN Become(p, [run[p] EXCEPT !.pc = "plan", !.email = run[p].cfg.email_override,
                       !.uniq = IF got.ok THEN <<got.val>> ELSE <<>>])
    /\ UNCHANGED <<provider, runs, lastPut>>

\* Phase 1 with an email override: no SSM
UseEmailOverride(p) ==
    /\ run[p].pc = "phase1"
    /\ run[p].cfg.email_override # <<>>
    /\ Become(p, [run[p] EXCEPT !.pc = "plan", !.email = run[p].cfg.email_override])
    /\ UNCHANGED <<provider, runs, lastPut>>

\* Phase 1 on the counter path: the automation session and identity
ResolveAutomation(p) ==
    /\ run[p].pc = "phase1"
    /\ run[p].cfg.email_override = <<>>
    /\ Become(p, [run[p] EXCEPT !.pc = "read",
                    !.calls = @ \o <<Call("automation", "get_session"),
                                     Call("automation", "get_caller_identity")>>])
    /\ UNCHANGED <<provider, runs, lastPut>>

\* Phases 1 and 2: read the counter, generate the email
ReadUniqueNumber(p) ==
    /\ run[p].pc = "read"
    /\ LET got == read_unique_number(ssm)
           r == [run[p] EXCEPT !.calls = Append(@, Call("automation", "get_parameter"))]
       IN Become(p, IF got.ok
                    THEN [r EXCEPT !.pc = "plan", !.uniq = <<got.val>>,
                            !.email = generate_email(DefaultConfig, got.val, r.cfg.account_name)]
                    ELSE Abort(r, got.error))
    /\ UNCHANGED <<provider, runs, lastPut>>

\* a skip_ou that is never set
SkipOu_Never(c) == FALSE

\* main.py 91: skip_ou = email_override and not ou_name and not ou_id
SkipOu(c) == c.email_override # <<>> /\ c.default_ou_name = "" /\ c.ou_id = ""

\* main.py 93-122: the dry-run plan
DryRunCreate(p) ==
    /\ run[p].pc = "plan"
    /\ run[p].cfg.dry_run
    /\ Become(p, Finish(run[p],
            [kind |-> "dry_run", email |-> run[p].email,
             ou_name |-> run[p].cfg.default_ou_name, ou_id |-> run[p].cfg.ou_id,
             unique_number |-> run[p].uniq,
             next_unique_number |-> IF run[p].uniq = <<>> THEN <<>>
                                    ELSE <<run[p].uniq[1] + 1>>]))
    /\ UNCHANGED <<provider, runs, lastPut>>

\* Phase 3: account_creator.create_account
CreateAccount(p) ==
    /\ run[p].pc = "plan"
    /\ ~run[p].cfg.dry_run
    /\ requests' = Append(requests,
            [email |-> run[p].email, name |-> run[p].cfg.account_name,
             state |-> "IN_PROGRESS", acct |-> 0, num |-> run[p].uniq, by |-> p,
             counted |-> FALSE])
    /\ Become(p, [run[p] EXCEPT !.pc = "poll", !.reqId = Len(requests) + 1,
                    !.skip_ou = SkipOu(run[p].cfg),
                    !.calls = Append(@, Call("mgmt", "create_account"))])
    /\ UNCHANGED <<ssm, accounts, ous, runs, lastPut>>

\* a poll loop that fetches once more than max_attempts allows
poll_account_creation_ExtraFetch(r, status) ==
    IF Len(r.fetches) > r.cfg.max_attempts THEN Abort(r, "creation_timeout")
    ELSE LET f == [r EXCEPT !.fetches = Append(@, status.state),
                     !.calls = Append(@, Call("mgmt", "describe_create_account_status"))]
         IN CASE status.state = "SUCCEEDED" -> [f EXCEPT !.pc = "ou", !.acct = status.acct]
              [] status.state = "FAILED" -> Abort(f, "creation_failed")
              [] OTHER -> [f EXCEPT !.sleeps = Append(@, r.cfg.interval)]

\* a poll loop that reports a FAILED request but does not exit on it
poll_account_creation_NoExit(r, status) ==
    IF Len(r.fetches) >= r.cfg.max_attempts THEN Abort(r, "creation_timeout")
    ELSE LET f == [r EXCEPT !.fetches = Append(@, status.state),
                     !.calls = Append(@, Call("mgmt", "describe_create_account_status"))]
         IN IF status.state = "IN_PROGRESS"
            THEN [f EXCEPT !.sleeps = Append(@, r.cfg.interval)]
            ELSE [f EXCEPT !.pc = "validate", !.vattempt = 1, !.skip_ou = TRUE]

\* Phase 4: account_creator.poll_account_creation, one pass of its loop on the
\* status the provider reports (or the end of the loop)
poll_account_creation(r, status) ==
    IF Len(r.fetches) >= r.cfg.max_attempts THEN Abort(r, "creation_timeout")
    ELSE LET f == [r EXCEPT !.fetches = Append(@, status.state),
                     !.calls = Append(@, Call("mgmt", "describe_create_account_status"))]
         IN CASE status.state = "SUCCEEDED" -> [f EXCEPT !.pc = "ou", !.acct = status.acct]
              [] status.state = "FAILED" -> Abort(f, "creation_failed")
              [] OTHER -> [f EXCEPT !.sleeps = Append(@, r.cfg.interval)]

PollAccountCreation(p) ==
    /\ run[p].pc = "poll"
    /\ Become(p, poll_account_creation(run[p], requests[run[p].reqId]))
    /\ UNCHANGED <<provider, runs, lastPut>>

\* a workflow that goes from OU placement straight to the counter
EnterValidation_Skipped(r) == [r EXCEPT !.pc = "increment"]

EnterValidation(r) ==
    [r EXCEPT !.pc = "validate", !.vattempt = 1, !.delay = ValidationInitialDelay]

\* Phase 5 skipped: custom email and no OU given
SkipOuPlacement(p) ==
    /\ run[p].pc = "ou"
    /\ run[p].skip_ou
    /\ Become(p, EnterValidation(run[p]))
    /\ UNCHANGED <<provider, runs, lastPut>>

\* Phase 5 with an explicit OU id: no lookup
\* a placement that looks the name up whenever one is configured
UseOuId_NameFirst(p) ==
    /\ run[p].pc = "ou"
    /\ ~run[p].skip_ou
    /\ run[p].cfg.ou_id # ""
    /\ LET found == find_ou_by_name(ous, run[p].cfg.default_ou_name)
           f == [run[p] EXCEPT !.calls = Append(@, Call("mgmt", "list_roots"))]
       IN Become(p, IF run[p].cfg.default_ou_name = ""
                    THEN [run[p] EXCEPT !.pc = "move", !.ou_id = run[p].cfg.ou_id,
                            !.ou_name = run[p].cfg.ou_id]
                    ELSE IF found.ou = "" THEN Abort(f, "ou_not_found")
                    ELSE [f EXCEPT !.pc = "move", !.ou_id = found.ou,
                            !.ou_name = found.name])
    /\ UNCHANGED <<provider, runs, lastPut>>

\* main.py 141-145: an explicit OU id is the target as it is
UseOuId(p) ==
    /\ run[p].pc = "ou"
    /\ ~run[p].skip_ou
    /\ run[p].cfg.ou_id # ""
    /\ Become(p, [run[p] EXCEPT !.pc = "move", !.ou_id = run[p].cfg.ou_id,
                    !.ou_name = run[p].cfg.ou_id])
    /\ UNCHANGED <<provider, runs, lastPut>>

\* a lookup that carries on without a target when no OU has the name
resolve_ou_by_name_NoExit(r, t) ==
    LET found == find_ou_by_name(t, r.cfg.default_ou_name)
    IN EnterValidation([r EXCEPT !.calls = Append(@, Call("mgmt", "list_roots")),
                                 !.ou_id = found.ou, !.ou_name = found.name])

\* main.py 147-152: the lookup by name and its missing-OU exit
resolve_ou_by_name(r, t) ==
    LET found == find_ou_by_name(t, r.cfg.default_ou_name)
        f == [r EXCEPT !.calls = @ \o <<Call("mgmt", "list_roots")>>
                   \o [i \in 1..Len(found.listed) |->
                         Call("mgmt", "list_organizational_units_for_parent")]]
    IN IF found.ou = "" THEN Abort(f, "ou_not_found")
       ELSE [f EXCEPT !.pc = "move", !.ou_id = found.ou, !.ou_name = found.name]

FindOu(p) ==
    /\ run[p].pc = "ou"
    /\ ~run[p].skip_ou
    /\ run[p].cfg.ou_id = ""
    /\ Become(p, resolve_ou_by_name(run[p], ous))
    /\ UNCHANGED <<provider, runs, lastPut>>

MoveRequest(account_id, source, destination) ==
    [AccountId |-> account_id, SourceParentId |-> source,
     DestinationParentId |-> destination]

\* a move that is requested without comparing the parent with the destination
move_account_to_ou_Unchecked(accts, account_id, destination) ==
    LET i == AccountIndex(accts, account_id)
        source == accts[i].parent
    IN [accounts |-> [accts EXCEPT ![i].parent = destination],
        calls |-> <<Call("mgmt", "list_parents"), Call("mgmt", "move_account")>>,
        moves |-> <<MoveRequest(account_id, source, destination)>>]

\* account_creator.move_account_to_ou: the accounts afterwards, the calls made
\* and the move requests among them
move_account_to_ou(accts, account_id, destination) ==
    LET i == AccountIndex(accts, account_id)
        source == accts[i].parent
    IN IF source = destination
       THEN [accounts |-> accts, calls |-> <<Call("mgmt", "list_parents")>>,
             moves |-> <<>>]
       ELSE [accounts |-> [accts EXCEPT ![i].parent = destination],
             calls |-> <<Call("mgmt", "list_parents"), Call("mgmt", "move_account")>>,
             moves |-> <<MoveRequest(account_id, source, destination)>>]

MoveAccount(p) ==
    /\ run[p].pc = "move"
    /\ LET moved == move_account_to_ou(accounts, run[p].acct, run[p].ou_id)
       IN /\ accounts' = moved.accounts
          /\ Become(p, EnterValidation([run[p] EXCEPT !.calls = @ \o moved.calls,
                                                      !.moves = @ \o moved.moves]))
    /\ UNCHANGED <<ssm, requests, ous, runs, lastPut>>

Min(a, b) == IF a < b THEN a ELSE b

\* the calls of one validation attempt: the role assumption and, when it
\* succeeds, the identity check through the assumed credentials
AttemptCalls(outcome) ==
    IF outcome = "assume_fails" THEN <<Call("mgmt", "assume_role")>>
    ELSE <<Call("mgmt", "assume_role"), Call("assumed", "get_caller_identity")>>

\* a validation that exits the run when its attempts are used up
validate_account_access_ExitOnExhaust(r, outcome, max_attempts, max_delay) ==
    LET f == [r EXCEPT !.vlast = outcome, !.calls = @ \o AttemptCalls(outcome)]
    IN IF outcome = "ok" THEN [f EXCEPT !.pc = "increment", !.validated = TRUE]
       ELSE IF r.vattempt < max_attempts
            THEN [f EXCEPT !.sleeps = Append(@, r.delay),
                           !.delay = Min(r.delay * 2, max_delay),
                           !.vattempt = r.vattempt + 1]
       ELSE Abort(f, "validation_failed")

\* a backoff that doubles the delay without the cap
validate_account_access_Uncapped(r, outcome, max_attempts, max_delay) ==
    LET f == [r EXCEPT !.vlast = outcome, !.calls = @ \o AttemptCalls(outcome)]
    IN IF outcome = "ok" THEN [f EXCEPT !.pc = "increment", !.validated = TRUE]
       ELSE IF r.vattempt < max_attempts
            THEN [f EXCEPT !.sleeps = Append(@, r.delay),
                           !.delay = r.delay * 2,
                           !.vattempt = r.vattempt + 1]
       ELSE [f EXCEPT !.pc = "increment", !.validated = FALSE]

\* a validation that returns true as soon as the role was assumed, whatever
\* the identity check says
validate_account_access_IdentityUnchecked(r, outcome, max_attempts, max_delay) ==
    LET f == [r EXCEPT !.vlast = outcome, !.calls = @ \o AttemptCalls(outcome)]
    IN IF outcome # "assume_fails" THEN [f EXCEPT !.pc = "increment", !.validated = TRUE]
       ELSE IF r.vattempt < max_attempts
            THEN [f EXCEPT !.sleeps = Append(@, r.delay),
                           !.delay = Min(r.delay * 2, max_delay),
                           !.vattempt = r.vattempt + 1]
       ELSE [f EXCEPT !.pc = "increment", !.validated = FALSE]

\* Phase 6: account_creator.validate_account_access, one attempt with its outcome
validate_account_access(r, outcome, max_attempts, max_delay) ==
    LET f == [r EXCEPT !.vlast = outcome, !.calls = @ \o AttemptCalls(outcome)]
    IN IF outcome = "ok" THEN [f EXCEPT !.pc = "increment", !.validated = TRUE]
       ELSE IF r.vattempt < max_attempts
            THEN [f EXCEPT !.sleeps = Append(@, r.delay),
                           !.delay = Min(r.delay * 2, max_delay),
                           !.vattempt = r.vattempt + 1]
       ELSE [f EXCEPT !.pc = "increment", !.validated = FALSE]

ValidateAccess(p, outcome) ==
    /\ run[p].pc = "validate"
    /\ Become(p, validate_account_access(run[p], outcome,
                                         ValidationAttempts, ValidationMaxDelay))
    /\ UNCHANGED <<provider, runs, lastPut>>

\* account_creator.build_output
build_output(r) ==
    [kind |-> "created", account_id |-> r.acct, email |-> r.email,
     ou_id |-> r.ou_id, ou_name |-> r.ou_name, validated |-> r.validated,
     status |-> "SUCCEEDED"]

\* SSM put_parameter
put_parameter(store, value, overwrite) ==
    IF store.exists /\ ~overwrite THEN store ELSE [exists |-> TRUE, value |-> value]

\* an increment that writes the observed value back without adding one
increment_unique_number_NoAdvance(store, current_value) ==
    [store |-> put_parameter(store, Str(current_value), TRUE), ret |-> current_value]

\* an increment that subtracts where it should add
increment_unique_number_Minus(store, current_value) ==
    [store |-> put_parameter(store, Str(current_value - 1), TRUE),
     ret |-> current_value - 1]

\* an increment that adds one to the value stored at the time of the write
increment_unique_number_Atomic(store, current_value) ==
    [store |-> put_parameter(store, Str(StoredNumber(store) + 1), TRUE),
     ret |-> StoredNumber(store) + 1]

\* an increment that writes only if the store still holds the observed value
increment_unique_number_CompareAndSwap(store, current_value) ==
    [store |-> IF StoredNumber(store) = current_value
               THEN put_parameter(store, Str(current_value + 1), TRUE) ELSE store,
     ret |-> current_value + 1]

\* ssm_client.increment_unique_number: the store afterwards and the value returned
increment_unique_number(store, current_value) ==
    [store |-> put_parameter(store, Str(current_value + 1), TRUE),
     ret |-> current_value + 1]

\* a phase 7 that advances the counter only for a validated account
IncrementUniqueNumber_OnlyValidated(p) ==
    /\ run[p].pc = "increment"
    /\ run[p].uniq # <<>>
    /\ LET inc == increment_unique_number(ssm, run[p].uniq[1])
           r == [run[p] EXCEPT !.calls = @ \o <<Call("automation", "get_session"),
                                                 Call("automation", "put_parameter")>>]
       IN IF run[p].validated
          THEN /\ ssm' = inc.store
               /\ lastPut' = [seen |-> TRUE, by |-> p, observed |-> run[p].uniq[1],
                              before |-> ssm, after |-> inc.store, ret |-> inc.ret]
               /\ requests' = [requests EXCEPT ![run[p].reqId].counted = TRUE]
               /\ Become(p, Finish(r, build_output(r)))
          ELSE /\ Become(p, Finish(run[p], build_output(run[p])))
               /\ UNCHANGED <<ssm, lastPut, requests>>
    /\ UNCHANGED <<accounts, ous, runs>>

\* Phase 7 on the counter path, then the result document
IncrementUniqueNumber(p) ==
    /\ run[p].pc = "increment"
    /\ run[p].uniq # <<>>
    /\ LET inc == increment_unique_number(ssm, run[p].uniq[1])
           r == [run[p] EXCEPT !.calls = @ \o <<Call("automation", "get_session"),
                                                 Call("automation", "put_parameter")>>]
       IN /\ ssm' = inc.store
          /\ lastPut' = [seen |-> TRUE, by |-> p, observed |-> run[p].uniq[1],
                         before |-> ssm, after |-> inc.store, ret |-> inc.ret]
          /\ requests' = [requests EXCEPT ![run[p].reqId].counted = TRUE]
          /\ Become(p, Finish(r, build_output(r)))
    /\ UNCHANGED <<accounts, ous, runs>>

\* Phase 7 skipped (custom email), then the result document
SkipIncrement(p) ==
    /\ run[p].pc = "increment"
    /\ run[p].uniq = <<>>
    /\ Become(p, Finish(run[p], build_output(run[p])))
    /\ UNCHANGED <<provider, runs, lastPut>>

\* ---------------------------------------------------------- close-account
\* The provider carries out an accepted closure on its own schedule.
ProviderClose(i) ==
    /\ accounts[i].closing
    /\ accounts[i].status \in {"ACTIVE", "PENDING_CLOSURE"}
    /\ accounts' = [accounts EXCEPT ![i].status =
                        IF @ = "ACTIVE" THEN "PENDING_CLOSURE" ELSE "SUSPENDED"]
    /\ UNCHANGED <<ssm, requests, ous, run, runs, lastPut>>

CloseTargets ==
    [mode : {"id"}, account_id : {MgmtId, 2, 3, 9}, email : {<<>>}]
        \cup [mode : {"email"}, account_id : {0},
              email : {<<"a", "@", "x">>, <<"b", "@", "x">>, <<"n", "@", "x">>}]
        \cup [mode : {"all"}, account_id : {0}, email : {<<>>}]

CloseConfigs ==
    {[mode |-> t.mode, account_id |-> t.account_id, email |-> t.email,
      dry_run |-> f.dry_run, no_wait |-> f.no_wait, confirmation |-> f.confirmation,
      max_attempts |-> MaxAttempts, interval |-> PollInterval] :
        t \in CloseTargets,
        f \in [dry_run : BOOLEAN, no_wait : BOOLEAN,
               confirmation : {"yes", "y", "YES"}]}

StartClose(p, c, limit) ==
    /\ Ended(run[p])
    /\ runs < limit
    /\ runs' = runs + 1
    /\ Become(p, [IdleRun EXCEPT !.pc = "c_session", !.cmd = "close", !.cfg = c])
    /\ UNCHANGED <<provider, lastPut>>

\* Phase 1: main._get_mgmt_org_client
CloseSession(p) ==
    /\ run[p].pc = "c_session"
    /\ Become(p, [run[p] EXCEPT
                    !.pc = IF run[p].cfg.mode = "all" THEN "c_list" ELSE "c_lookup",
                    !.calls = @ \o <<Call("mgmt", "get_session"),
                                     Call("mgmt", "get_caller_identity")>>])
    /\ UNCHANGED <<provider, runs, lastPut>>

\* a scan that keeps the last account with the email instead of the first
find_account_by_email_Last(accts, email) ==
    IF \E i \in 1..Len(accts) : accts[i].email = email
    THEN CHOOSE i \in 1..Len(accts) :
            /\ accts[i].email = email
            /\ \A j \in (i + 1)..Len(accts) : accts[j].email # email
    ELSE 0

\* account_closer.find_account_by_email: the index of the first match, 0 for None
find_account_by_email(accts, email) ==
    IF \E i \in 1..Len(accts) : accts[i].email = email
    THEN CHOOSE i \in 1..Len(accts) :
            /\ accts[i].email = email
            /\ \A j \in 1..(i - 1) : accts[j].email # email
    ELSE 0

\* account_closer.build_closure_output
build_closure_output(a, status) ==
    [kind |-> "closure", account_id |-> a.id, email |-> a.email, status |-> status]

\* a lookup that goes on to the closure whatever the account's status
lookup_account_AnyStatus(r, accts) ==
    LET byEmail == r.cfg.mode = "email"
        i == IF byEmail THEN find_account_by_email(accts, r.cfg.email)
             ELSE IF HasAccount(accts, r.cfg.account_id)
                  THEN AccountIndex(accts, r.cfg.account_id) ELSE 0
        f == [r EXCEPT !.calls = Append(@, Call("mgmt",
                            IF byEmail THEN "list_accounts" ELSE "describe_account"))]
    IN IF i = 0 THEN Abort(f, "account_not_found")
       ELSE [f EXCEPT !.pc = "c_plan", !.target = accts[i].id]

\* main._close_single_account 226-255: the lookup and the already-closed exit
lookup_account(r, accts) ==
    LET byEmail == r.cfg.mode = "email"
        i == IF byEmail THEN find_account_by_email(accts, r.cfg.email)
             ELSE IF HasAccount(accts, r.cfg.account_id)
                  THEN AccountIndex(accts, r.cfg.account_id) ELSE 0
        f == [r EXCEPT !.calls = Append(@, Call("mgmt",
                            IF byEmail THEN "list_accounts" ELSE "describe_account"))]
    IN IF i = 0 THEN Abort(f, "account_not_found")
       ELSE IF accts[i].status # "ACTIVE"
            THEN Finish(f, build_closure_output(accts[i], accts[i].status))
       ELSE [f EXCEPT !.pc = "c_plan", !.target = accts[i].id]

LookupAccount(p) ==
    /\ run[p].pc = "c_lookup"
    /\ Become(p, lookup_account(run[p], accounts))
    /\ UNCHANGED <<provider, runs, lastPut>>

\* main._close_single_account 257-269
DryRunClose(p) ==
    /\ run[p].pc = "c_plan"
    /\ run[p].cfg.dry_run
    /\ Become(p, Finish(run[p], [kind |-> "dry_run", account_id |-> run[p].target]))
    /\ UNCHANGED <<provider, runs, lastPut>>

\* What the provider may answer to CloseAccount for account i: it accepts the
\* closure of an active member, reports an account that is already closed or
\* closing, and refuses at will (always for the management account).
CloseAnswers(accts, i) ==
    {"error"}
        \cup (IF accts[i].id # MgmtId /\ accts[i].status = "ACTIVE" /\ ~accts[i].closing
              THEN {"accepted"} ELSE {})
        \cup (IF accts[i].status # "ACTIVE" \/ accts[i].closing
              THEN {"already_closed"} ELSE {})

\* a close_account that reports success whatever the provider answers
close_account_CatchAll(accts, id, answer) ==
    LET i == AccountIndex(accts, id)
    IN [accounts |-> IF answer = "accepted" THEN [accts EXCEPT ![i].closing = TRUE]
                     ELSE accts,
        returned |-> TRUE]

\* account_closer.close_account on the provider's answer: the accounts
\* afterwards and whether the call returned (TRUE) or raised (FALSE)
close_account(accts, id, answer) ==
    LET i == AccountIndex(accts, id)
    IN [accounts |-> IF answer = "accepted" THEN [accts EXCEPT ![i].closing = TRUE]
                     ELSE accts,
        returned |-> answer \in {"accepted", "already_closed"}]

\* a single close that requests the closure before looking at --dry-run
CloseSingle_BeforeDryRun(p, answer) ==
    /\ run[p].pc = "c_plan"
    /\ answer \in CloseAnswers(accounts, AccountIndex(accounts, run[p].target))
    /\ accounts' = close_account(accounts, run[p].target, answer).accounts
    /\ Become(p, [run[p] EXCEPT !.pc = "c_poll",
                    !.calls = Append(@, Call("mgmt", "close_account"))])
    /\ UNCHANGED <<ssm, requests, ous, runs, lastPut>>

\* a single close that polls whether or not --no-wait was given
CloseSingle_AlwaysPolls(p, answer) ==
    /\ run[p].pc = "c_plan"
    /\ ~run[p].cfg.dry_run
    /\ answer \in CloseAnswers(accounts, AccountIndex(accounts, run[p].target))
    /\ LET res == close_account(accounts, run[p].target, answer)
           r == [run[p] EXCEPT !.calls = Append(@, Call("mgmt", "close_account"))]
       IN /\ accounts' = res.accounts
          /\ Become(p, IF ~res.returned THEN Abort(r, "close_failed")
                       ELSE [r EXCEPT !.pc = "c_poll"])
    /\ UNCHANGED <<ssm, requests, ous, runs, lastPut>>

\* Phase 3 of the single close: main._close_single_account 271-280
CloseSingle(p, answer) ==
    /\ run[p].pc = "c_plan"
    /\ ~run[p].cfg.dry_run
    /\ answer \in CloseAnswers(accounts, AccountIndex(accounts, run[p].target))
    /\ LET res == close_account(accounts, run[p].target, answer)
           r == [run[p] EXCEPT !.calls = Append(@, Call("mgmt", "close_account"))]
           a == accounts[AccountIndex(accounts, run[p].target)]
       IN /\ accounts' = res.accounts
          /\ Become(p, IF ~res.returned THEN Abort(r, "close_failed")
                       ELSE IF r.cfg.no_wait
                            THEN Finish(r, build_closure_output(a, "CLOSE_REQUESTED"))
                       ELSE [r EXCEPT !.pc = "c_poll"])
    /\ UNCHANGED <<ssm, requests, ous, runs, lastPut>>

\* a closure poll that waits for SUSPENDED instead of any status but ACTIVE
poll_account_closure_UntilSuspended(r, status) ==
    IF Len(r.fetches) >= r.cfg.max_attempts
    THEN [done |-> TRUE, status |-> "ACTIVE", run |-> r]
    ELSE LET f == [r EXCEPT !.fetches = Append(@, status),
                            !.calls = Append(@, Call("mgmt", "describe_account"))]
         IN IF status = "SUSPENDED" THEN [done |-> TRUE, status |-> status, run |-> f]
            ELSE [done |-> FALSE, status |-> status,
                  run |-> [f EXCEPT !.sleeps = Append(@, r.cfg.interval)]]

\* a closure poll whose loop makes one pass more than max_attempts
poll_account_closure_OneMore(r, status) ==
    IF Len(r.fetches) > r.cfg.max_attempts
    THEN [done |-> TRUE, status |-> "ACTIVE", run |-> r]
    ELSE LET f == [r EXCEPT !.fetches = Append(@, status),
                            !.calls = Append(@, Call("mgmt", "describe_account"))]
         IN IF status # "ACTIVE" THEN [done |-> TRUE, status |-> status, run |-> f]
            ELSE [done |-> FALSE, status |-> status,
                  run |-> [f EXCEPT !.sleeps = Append(@, r.cfg.interval)]]

\* account_closer.poll_account_closure, one pass of its loop on the status the
\* provider reports (or the end of the loop): done is whether it returned
poll_account_closure(r, status) ==
    IF Len(r.fetches) >= r.cfg.max_attempts
    THEN [done |-> TRUE, status |-> "ACTIVE", run |-> r]
    ELSE LET f == [r EXCEPT !.fetches = Append(@, status),
                            !.calls = Append(@, Call("mgmt", "describe_account"))]
         IN IF status # "ACTIVE" THEN [done |-> TRUE, status |-> status, run |-> f]
            ELSE [done |-> FALSE, status |-> status,
                  run |-> [f EXCEPT !.sleeps = Append(@, r.cfg.interval)]]

\* Phase 4 of the single close
PollSingle(p) ==
    /\ run[p].pc = "c_poll"
    /\ LET a == accounts[AccountIndex(accounts, run[p].target)]
           res == poll_account_closure(run[p], a.status)
       IN Become(p, IF res.done
                    THEN Finish(res.run, build_closure_output(a, res.status))
                    ELSE res.run)
    /\ UNCHANGED <<provider, runs, lastPut>>

\* a listing that keeps the management account
list_member_accounts_Unfiltered(accts) == accts

\* account_closer.list_member_accounts
list_member_accounts(accts) == SelectSeq(accts, LAMBDA a : a.id # MgmtId)

Ids(accts) == [i \in 1..Len(accts) |-> accts[i].id]

BulkReport(r, total) ==
    [kind |-> "bulk", closed |-> r.closed, failed |-> r.failed, skipped |-> r.skipped,
     total |-> total, closed_count |-> Len(r.closed), failed_count |-> Len(r.failed),
     skipped_count |-> Len(r.skipped)]

\* a listing that puts every member account in skipped
list_for_bulk_SkipsAll(r, accts) ==
    LET all == list_member_accounts(accts)
        f == [r EXCEPT !.calls = @ \o <<Call("mgmt", "describe_organization"),
                                         Call("mgmt", "list_accounts")>>,
                       !.active = Ids(SelectSeq(all, LAMBDA a : a.status = "ACTIVE")),
                       !.skipped = Ids(all),
                       !.target = Len(all)]
    IN IF f.active = <<>> THEN Finish(f, BulkReport(f, Len(all)))
       ELSE [f EXCEPT !.pc = "c_bulk_plan"]

\* main._close_all_accounts 293-318: the listing and the nothing-to-close exit
list_for_bulk(r, accts) ==
    LET all == list_member_accounts(accts)
        f == [r EXCEPT !.calls = @ \o <<Call("mgmt", "describe_organization"),
                                         Call("mgmt", "list_accounts")>>,
                       !.active = Ids(SelectSeq(all, LAMBDA a : a.status = "ACTIVE")),
                       !.skipped = Ids(SelectSeq(all, LAMBDA a : a.status # "ACTIVE")),
                       !.target = Len(all)]
    IN IF f.active = <<>> THEN Finish(f, BulkReport(f, Len(all)))
       ELSE [f EXCEPT !.pc = "c_bulk_plan"]

ListMembers(p) ==
    /\ run[p].pc = "c_list"
    /\ Become(p, list_for_bulk(run[p], accounts))
    /\ UNCHANGED <<provider, runs, lastPut>>

\* main._close_all_accounts 324-337
DryRunBulk(p) ==
    /\ run[p].pc = "c_bulk_plan"
    /\ run[p].cfg.dry_run
    /\ Become(p, Finish(run[p], [kind |-> "dry_run", accounts_to_close |-> run[p].active,
                                 count |-> Len(run[p].active)]))
    /\ UNCHANGED <<provider, runs, lastPut>>

\* a confirmation that goes on whatever the operator typed
ConfirmBulk_AnyAnswer(p) ==
    /\ run[p].pc = "c_bulk_plan"
    /\ ~run[p].cfg.dry_run
    /\ Become(p, [run[p] EXCEPT !.pc = "c_bulk", !.idx = 1,
                    !.calls = Append(@, Call("operator", "input"))])
    /\ UNCHANGED <<provider, runs, lastPut>>

\* main._close_all_accounts 339-350: the confirmation read from the operator
ConfirmBulk(p) ==
    /\ run[p].pc = "c_bulk_plan"
    /\ ~run[p].cfg.dry_run
    /\ LET r == [run[p] EXCEPT !.calls = Append(@, Call("operator", "input"))]
       IN Become(p, IF r.cfg.confirmation # "yes" THEN Abort(r, "not_confirmed")
                    ELSE [r EXCEPT !.pc = "c_bulk", !.idx = 1])
    /\ UNCHANGED <<provider, runs, lastPut>>

\* a loop that passes over the account after the current one
NextInBulk_SkipsNext(r) ==
    IF r.idx + 1 < Len(r.active)
    THEN [r EXCEPT !.pc = "c_bulk", !.idx = r.idx + 2, !.fetches = <<>>]
    ELSE Finish(r, BulkReport(r, r.target))

\* the loop of main._close_all_accounts moves to the next account, or reports
NextInBulk(r) ==
    IF r.idx < Len(r.active) THEN [r EXCEPT !.pc = "c_bulk", !.idx = r.idx + 1, !.fetches = <<>>]
    ELSE Finish(r, BulkReport(r, r.target))

\* a bulk closure that exits on the first account that fails to close
CloseInBulk_StopOnError(p, answer) ==
    /\ run[p].pc = "c_bulk"
    /\ LET id == run[p].active[run[p].idx]
           res == close_account(accounts, id, answer)
           r == [run[p] EXCEPT !.calls = Append(@, Call("mgmt", "close_account"))]
       IN /\ answer \in CloseAnswers(accounts, AccountIndex(accounts, id))
          /\ accounts' = res.accounts
          /\ Become(p, IF ~res.returned THEN Abort(r, "close_failed")
                       ELSE IF r.cfg.no_wait
                            THEN NextInBulk([r EXCEPT !.closed =
                                    Append(@, [id |-> id, status |-> "CLOSE_REQUESTED"])])
                       ELSE [r EXCEPT !.pc = "c_bulk_poll"])
    /\ UNCHANGED <<ssm, requests, ous, runs, lastPut>>

\* main._close_all_accounts 352-366: the closure request for the current account
CloseInBulk(p, answer) ==
    /\ run[p].pc = "c_bulk"
    /\ LET id == run[p].active[run[p].idx]
           res == close_account(accounts, id, answer)
           r == [run[p] EXCEPT !.calls = Append(@, Call("mgmt", "close_account"))]
       IN /\ answer \in CloseAnswers(accounts, AccountIndex(accounts, id))
          /\ accounts' = res.accounts
          /\ Become(p, IF ~res.returned
                       THEN NextInBulk([r EXCEPT !.failed = Append(@, id)])
                       ELSE IF r.cfg.no_wait
                            THEN NextInBulk([r EXCEPT !.closed =
                                    Append(@, [id |-> id, status |-> "CLOSE_REQUESTED"])])
                       ELSE [r EXCEPT !.pc = "c_bulk_poll"])
    /\ UNCHANGED <<ssm, requests, ous, runs, lastPut>>

\* a bulk poll that counts an account still ACTIVE at its end as failed
PollInBulk_TimeoutFails(p) ==
    /\ run[p].pc = "c_bulk_poll"
    /\ LET id == run[p].active[run[p].idx]
           res == poll_account_closure(run[p], accounts[AccountIndex(accounts, id)].status)
       IN Become(p, IF res.done /\ res.status = "ACTIVE"
                    THEN NextInBulk([res.run EXCEPT !.failed = Append(@, id)])
                    ELSE IF res.done
                    THEN NextInBulk([res.run EXCEPT !.closed =
                                        Append(@, [id |-> id, status |-> res.status])])
                    ELSE res.run)
    /\ UNCHANGED <<provider, runs, lastPut>>

\* main._close_all_accounts 362-363: polling the current account
PollInBulk(p) ==
    /\ run[p].pc = "c_bulk_poll"
    /\ LET id == run[p].active[run[p].idx]
           res == poll_account_closure(run[p], accounts[AccountIndex(accounts, id)].status)
       IN Become(p, IF res.done
                    THEN NextInBulk([res.run EXCEPT !.closed =
                                        Append(@, [id |-> id, status |-> res.status])])
                    ELSE res.run)
    /\ UNCHANGED <<provider, runs, lastPut>>

\* main._close_all_accounts 362-366: a status fetch of the poll raises; the
\* handler of the loop records the account as failed
PollRaisesInBulk(p) ==
    /\ run[p].pc = "c_bulk_poll"
    /\ Len(run[p].fetches) < run[p].cfg.max_attempts
    /\ Become(p, NextInBulk([run[p] EXCEPT
                    !.calls = Append(@, Call("mgmt", "describe_account")),
                    !.failed = Append(@, run[p].active[run[p].idx])]))
    /\ UNCHANGED <<provider, runs, lastPut>>

CloseStep(p) ==
    \/ CloseSession(p)
    \/ LookupAccount(p)
    \/ DryRunClose(p)
    \/ \E answer \in {"accepted", "already_closed", "error"} : CloseSingle(p, answer)
    \/ PollSingle(p)
    \/ ListMembers(p)
    \/ DryRunBulk(p)
    \/ ConfirmBulk(p)
    \/ \E answer \in {"accepted", "already_closed", "error"} : CloseInBulk(p, answer)
    \/ PollInBulk(p)
    \/ PollRaisesInBulk(p)

\* ------------------------------------------------------------------- Init
InitStores ==
    {[exists |-> TRUE, value |-> <<"9">>], [exists |-> TRUE, value |-> <<" ", "0", "4">>],
     [exists |-> TRUE, value |-> <<"x">>], [exists |-> FALSE, value |-> <<>>]}

InitAccounts ==
    <<[id |-> MgmtId, name |-> <<"m">>, email |-> <<"m", "@", "x">>,
       status |-> "ACTIVE", parent |-> Root, closing |-> FALSE],
      [id |-> 2, name |-> <<"a">>, email |-> <<"a", "@", "x">>,
       status |-> "ACTIVE", parent |-> "ou-a", closing |-> FALSE],
      [id |-> 3, name |-> <<"b">>, email |-> <<"b", "@", "x">>,
       status |-> "SUSPENDED", parent |-> Root, closing |-> TRUE],
      [id |-> 4, name |-> <<"c">>, email |-> <<"c", "@", "x">>,
       status |-> "ACTIVE", parent |-> Root, closing |-> FALSE]>>

InitOus ==
    <<[id |-> "ou-a", name |-> "Dev", parent |-> Root],
      [id |-> "ou-b", name |-> "Prod", parent |-> "ou-a"],
      [id |-> "ou-c", name |-> "Prod", parent |-> Root]>>

NoPut == [seen |-> FALSE, by |-> "", observed |-> 0,
          before |-> [exists |-> FALSE, value |-> <<>>],
          after |-> [exists |-> FALSE, value |-> <<>>], ret |-> 0]

Init ==
    /\ ssm \in InitStores
    /\ requests = <<>>
    /\ accounts = InitAccounts
    /\ ous = InitOus
    /\ run = [p \in Procs |-> IdleRun]
    /\ runs = 0
    /\ lastPut = NoPut

ValidationOutcomes == {"ok", "assume_fails", "identity_fails"}

\* the steps of a run on the counter path, with the outcomes validation may meet
CounterPathStep(p, outcomes) ==
    \/ ResolveManagement(p)
    \/ ResolveAutomation(p)
    \/ ReadUniqueNumber(p)
    \/ DryRunCreate(p)
    \/ CreateAccount(p)
    \/ PollAccountCreation(p)
    \/ UseOuId(p)
    \/ FindOu(p)
    \/ MoveAccount(p)
    \/ \E outcome \in outcomes : ValidateAccess(p, outcome)
    \/ IncrementUniqueNumber(p)

\* the steps taken only with an email override
OverrideStep(p) ==
    \/ UseEmailOverride(p)
    \/ SkipOuPlacement(p)
    \/ SkipIncrement(p)

CreationProgress ==
    \E r \in 1..Len(requests) : ProviderSucceed(r) \/ ProviderFail(r)

ClosureProgress ==
    \E i \in 1..Len(accounts) : ProviderClose(i)

\* Spec: one invocation, any configuration, from any initial store
Next ==
    \/ \E c \in CreateConfigs : StartCreate("p1", c, 1)
    \/ CounterPathStep("p1", ValidationOutcomes)
    \/ OverrideStep("p1")
    \/ \E c \in CloseConfigs : StartClose("p1", c, 1)
    \/ CloseStep("p1")
    \/ CreationProgress
    \/ ClosureProgress

Spec == Init /\ [][Next]_vars

CounterConfigs == {c \in CreateConfigs : c.email_override = <<>>}

\* SpecSeq: strictly sequential invocations of one operator on the counter
\* path; a validation attempt succeeds or fails at the role assumption
NextSeq ==
    \/ \E c \in CounterConfigs : StartCreate("p1", c, MaxRuns)
    \/ CounterPathStep("p1", {"ok", "assume_fails"})
    \/ CreationProgress

SpecSeq == Init /\ [][NextSeq]_vars

\* SpecConc: invocations of two operators, overlapping in any way, each with its
\* own account name, an explicit OU id and one status fetch; the provider
\* completes every request and validation succeeds at once
ConcConfigs(p) ==
    CreateConfigsOf({IF p = "p1" THEN <<"M", "y", " ", "A">> ELSE <<"c", "!">>},
                    {<<>>}, {""}, {"ou-a"}, {FALSE}, {1})

ConcStep(p) ==
    \/ \E c \in ConcConfigs(p) : StartCreate(p, c, MaxRunsConc)
    \/ ResolveManagement(p)
    \/ ResolveAutomation(p)
    \/ ReadUniqueNumber(p)
    \/ CreateAccount(p)
    \/ PollAccountCreation(p)
    \/ UseOuId(p)
    \/ MoveAccount(p)
    \/ ValidateAccess(p, "ok")
    \/ IncrementUniqueNumber(p)

NextConc ==
    \/ \E p \in Procs : ConcStep(p)
    \/ \E r \in 1..Len(requests) : ProviderSucceed(r)

SpecConc == Init /\ [][NextConc]_vars

\* SpecValidate: validate_account_access called on its own, with its
\* parameters drawn from small sets; pc = "increment" stands for its return
ValidateInputs ==
    [max_attempts : 1..MaxValidationAttempts, initial_delay : {1, 5}, max_delay : {4, 30}]

InitValidate ==
    /\ ssm = [exists |-> TRUE, value |-> <<"9">>]
    /\ requests = <<>>
    /\ accounts = InitAccounts
    /\ ous = InitOus
    /\ \E c \in ValidateInputs :
            run = [p \in Procs |->
                     IF p = "p1"
                     THEN [IdleRun EXCEPT !.pc = "validate", !.cmd = "validate", !.cfg = c,
                             !.acct = 2, !.vattempt = 1, !.delay = c.initial_delay]
                     ELSE IdleRun]
    /\ runs = 1
    /\ lastPut = NoPut

CallValidate(p) ==
    /\ run[p].cmd = "validate"
    /\ run[p].pc = "validate"
    /\ \E outcome \in ValidationOutcomes :
            Become(p, validate_account_access(run[p], outcome,
                        run[p].cfg.max_attempts, run[p].cfg.max_delay))
    /\ UNCHANGED <<provider, runs, lastPut>>

NextValidate == CallValidate("p1")

SpecValidate == InitValidate /\ [][NextValidate]_vars

\* SpecMove: move_account_to_ou called on its own, up to MaxMoves times in a
\* row, on an account under any parent and towards any destination; idx
\* counts the calls and ou_id is the destination of the latest
Parents == {Root} \cup {InitOus[i].id : i \in 1..Len(InitOus)}

InitMove ==
    /\ ssm = [exists |-> TRUE, value |-> <<"9">>]
    /\ requests = <<>>
    /\ \E at \in [{2, 4} -> Parents] :
            accounts = [i \in 1..Len(InitAccounts) |->
                          IF InitAccounts[i].id \in {2, 4}
                          THEN [InitAccounts[i] EXCEPT !.parent = at[InitAccounts[i].id]]
                          ELSE InitAccounts[i]]
    /\ ous = InitOus
    /\ \E id \in {2, 4} :
            run = [p \in Procs |->
                     IF p = "p1"
                     THEN [IdleRun EXCEPT !.pc = "move", !.cmd = "move", !.acct = id]
                     ELSE IdleRun]
    /\ runs = 1
    /\ lastPut = NoPut

CallMove(p) ==
    /\ run[p].cmd = "move"
    /\ run[p].idx < MaxMoves
    /\ \E destination \in Parents :
         LET moved == move_account_to_ou(accounts, run[p].acct, destination)
         IN /\ accounts' = moved.accounts
            /\ Become(p, [run[p] EXCEPT !.idx = @ + 1, !.ou_id = destination,
                            !.calls = @ \o moved.calls, !.moves = @ \o moved.moves])
    /\ UNCHANGED <<ssm, requests, ous, runs, lastPut>>

NextMove == CallMove("p1")

SpecMove == InitMove /\ [][NextMove]_vars

\* SpecFindOu: find_ou_by_name called on its own, on every tree of up to
\* MaxOus OUs named from OuNames, listed in the order of OuIds under their
\* parents, for a name that some OUs may bear and a name that none bears
OuIds == <<"ou-a", "ou-b", "ou-c", "ou-d", "ou-e">>
OuNames == {"Prod", "Dev"}

OuTreesOf(n) ==
    {[i \in 1..n |-> [id |-> OuIds[i], name |-> nm[i],
                      parent |-> IF par[i] = 0 THEN Root ELSE OuIds[par[i]]]] :
        nm \in [1..n -> OuNames],
        par \in {f \in [1..n -> 0..n] : \A i \in 1..n : f[i] < i}}

OuTrees == UNION {OuTreesOf(n) : n \in 0..MaxOus}

InitFindOu ==
    /\ ssm = [exists |-> TRUE, value |-> <<"9">>]
    /\ requests = <<>>
    /\ accounts = InitAccounts
    /\ ous \in OuTrees
    /\ \E name \in {"Prod", "Nope"} :
            run = [p \in Procs |->
                     IF p = "p1"
                     THEN [IdleRun EXCEPT !.pc = "ou", !.cmd = "find_ou",
                             !.cfg = [ou_name |-> name]]
                     ELSE IdleRun]
    /\ runs = 1
    /\ lastPut = NoPut

CallFindOu(p) ==
    /\ run[p].cmd = "find_ou"
    /\ run[p].pc = "ou"
    /\ LET found == find_ou_by_name(ous, run[p].cfg.ou_name)
       IN Become(p, [run[p] EXCEPT !.pc = "done", !.ou_id = found.ou,
                       !.ou_name = found.name,
                       !.calls = <<Call("mgmt", "list_roots")>>
                           \o [i \in 1..Len(found.listed) |->
                                 Call("mgmt", "list_organizational_units_for_parent")]])
    /\ UNCHANGED <<provider, runs, lastPut>>

NextFindOu == CallFindOu("p1")

SpecFindOu == InitFindOu /\ [][NextFindOu]_vars

\* SpecPollClosure: poll_account_closure called on its own for an account in
\* any state of closure, while the provider carries closures out
ClosureStates ==
    {[status |-> "ACTIVE", closing |-> FALSE], [status |-> "ACTIVE", closing |-> TRUE],
     [status |-> "PENDING_CLOSURE", closing |-> TRUE],
     [status |-> "SUSPENDED", closing |-> TRUE]}

\* the initial accounts with accounts 2 and 4 in the given states of closure
AccountsIn(at) ==
    [i \in 1..Len(InitAccounts) |->
        IF InitAccounts[i].id \in {2, 4}
        THEN [InitAccounts[i] EXCEPT !.status = at[InitAccounts[i].id].status,
                                     !.closing = at[InitAccounts[i].id].closing]
        ELSE InitAccounts[i]]

InitPollClosure ==
    /\ ssm = [exists |-> TRUE, value |-> <<"9">>]
    /\ requests = <<>>
    /\ \E at \in [{2, 4} -> ClosureStates] : accounts = AccountsIn(at)
    /\ ous = InitOus
    /\ \E id \in {2, 4}, max_attempts \in 0..MaxAttempts :
            run = [p \in Procs |->
                     IF p = "p1"
                     THEN [IdleRun EXCEPT !.pc = "c_poll", !.cmd = "poll_closure",
                             !.cfg = [max_attempts |-> max_attempts,
                                      interval |-> PollInterval],
                             !.target = id]
                     ELSE IdleRun]
    /\ runs = 1
    /\ lastPut = NoPut

CallPollClosure(p) ==
    /\ run[p].cmd = "poll_closure"
    /\ run[p].pc = "c_poll"
    /\ LET a == accounts[AccountIndex(accounts, run[p].target)]
           res == poll_account_closure(run[p], a.status)
       IN Become(p, IF res.done
                    THEN Finish(res.run, [kind |-> "returned", status |-> res.status])
                    ELSE res.run)
    /\ UNCHANGED <<provider, runs, lastPut>>

NextPollClosure ==
    \/ CallPollClosure("p1")
    \/ ClosureProgress

SpecPollClosure == InitPollClosure /\ [][NextPollClosure]_vars

\* SpecCloseAccount: close_account called on its own, up to MaxCloses times
\* in a row on one account, while the provider carries closures out; closed
\* holds the provider's answers on which it returned, failed those on which
\* it raised
InitCloseAccount ==
    /\ ssm = [exists |-> TRUE, value |-> <<"9">>]
    /\ requests = <<>>
    /\ \E at \in [{2, 4} -> ClosureStates] : accounts = AccountsIn(at)
    /\ ous = InitOus
    /\ \E id \in {MgmtId, 2, 3, 4} :
            run = [p \in Procs |->
                     IF p = "p1"
                     THEN [IdleRun EXCEPT !.pc = "c_plan", !.cmd = "close_account",
                             !.target = id]
                     ELSE IdleRun]
    /\ runs = 1
    /\ lastPut = NoPut

CallCloseAccount(p) ==
    /\ run[p].cmd = "close_account"
    /\ run[p].idx < MaxCloses
    /\ \E answer \in CloseAnswers(accounts, AccountIndex(accounts, run[p].target)) :
         LET res == close_account(accounts, run[p].target, answer)
             r == [run[p] EXCEPT !.idx = @ + 1,
                                 !.calls = Append(@, Call("mgmt", "close_account"))]
         IN /\ accounts' = res.accounts
            /\ Become(p, IF res.returned THEN [r EXCEPT !.closed = Append(@, answer)]
                         ELSE [r EXCEPT !.failed = Append(@, answer)])
    /\ UNCHANGED <<ssm, requests, ous, runs, lastPut>>

NextCloseAccount ==
    \/ CallCloseAccount("p1")
    \/ ClosureProgress

SpecCloseAccount == InitCloseAccount /\ [][NextCloseAccount]_vars

\* SpecBulk: one close-account --all --no-wait invocation on every
\* organization of up to MaxMembers member accounts, each ACTIVE or already
\* SUSPENDED, with the management account anywhere in the listing
Organization(n, k, st) ==
    [i \in 1..(n + 1) |->
        IF i = k
        THEN [id |-> MgmtId, name |-> <<"m">>, email |-> <<"m", "@", "x">>,
              status |-> "ACTIVE", parent |-> Root, closing |-> FALSE]
        ELSE LET m == IF i < k THEN i ELSE i - 1
             IN [id |-> m + 1, name |-> <<Lowers[m]>>, email |-> <<Lowers[m], "@", "x">>,
                 status |-> st[m], parent |-> Root, closing |-> st[m] # "ACTIVE"]]

Organizations ==
    UNION {{Organization(n, k, st) :
                k \in 1..(n + 1), st \in [1..n -> {"ACTIVE", "SUSPENDED"}]} :
           n \in 0..MaxMembers}

BulkConfigs == {c \in CloseConfigs : c.mode = "all" /\ c.no_wait}

InitBulk ==
    /\ ssm = [exists |-> TRUE, value |-> <<"9">>]
    /\ requests = <<>>
    /\ accounts \in Organizations
    /\ ous = InitOus
    /\ run = [p \in Procs |-> IdleRun]
    /\ runs = 0
    /\ lastPut = NoPut

NextBulk ==
    \/ \E c \in BulkConfigs : StartClose("p1", c, 1)
    \/ CloseSession("p1")
    \/ ListMembers("p1")
    \/ DryRunBulk("p1")
    \/ ConfirmBulk("p1")
    \/ \E answer \in {"accepted", "error"} : CloseInBulk("p1", answer)

SpecBulk == InitBulk /\ [][NextBulk]_vars

\* SpecCloseByEmail: one close-account --email invocation on every listing
\* of up to MaxListed accounts, each ACTIVE or SUSPENDED, that may share
\* their emails
Listing(n, em, st) ==
    [i \in 1..n |->
        [id |-> i + 1, name |-> <<Lowers[i]>>, email |-> em[i], status |-> st[i],
         parent |-> Root, closing |-> st[i] # "ACTIVE"]]

Listings ==
    UNION {{Listing(n, em, st) :
                em \in [1..n -> {<<"a", "@", "x">>, <<"b", "@", "x">>}],
                st \in [1..n -> {"ACTIVE", "SUSPENDED"}]} :
           n \in 0..MaxListed}

EmailConfigs ==
    {c \in CloseConfigs : c.mode = "email" /\ c.confirmation = "yes"}

InitCloseByEmail ==
    /\ ssm = [exists |-> TRUE, value |-> <<"9">>]
    /\ requests = <<>>
    /\ accounts \in Listings
    /\ ous = InitOus
    /\ run = [p \in Procs |-> IdleRun]
    /\ runs = 0
    /\ lastPut = NoPut

NextCloseByEmail ==
    \/ \E c \in EmailConfigs : StartClose("p1", c, 1)
    \/ CloseSession("p1")
    \/ LookupAccount("p1")
    \/ DryRunClose("p1")
    \/ \E answer \in {"accepted", "already_closed", "error"} : CloseSingle("p1", answer)
    \/ PollSingle("p1")
    \/ ClosureProgress

SpecCloseByEmail == InitCloseByEmail /\ [][NextCloseByEmail]_vars

\* SpecGetSession: get_session called on its own with its four arguments
\* drawn from small sets; pc = "returned" stands for its return and
\* pc = "raised" for the error of assume_role passing through
SessionInputs ==
    [profile_name : {None, "", "my-profile", "other"},
     role_arn : {None, "", "arn:TestRole", "arn:Other"},
     region_name : {None, "us-east-1", "eu-west-1"},
     session_name : {"account-lifecycle", "lifecycle-create-account", "custom"}]

StsAnswers ==
    {[ok |-> FALSE, credentials |-> None],
     [ok |-> TRUE, credentials |-> "AKID"],
     [ok |-> TRUE, credentials |-> "AKID2"]}

InitGetSession ==
    /\ ssm = [exists |-> TRUE, value |-> <<"9">>]
    /\ requests = <<>>
    /\ accounts = InitAccounts
    /\ ous = InitOus
    /\ \E c \in SessionInputs :
            run = [p \in Procs |->
                     IF p = "p1"
                     THEN [IdleRun EXCEPT !.pc = "get_session", !.cmd = "get_session",
                             !.cfg = c]
                     ELSE IdleRun]
    /\ runs = 1
    /\ lastPut = NoPut

CallGetSession(p) ==
    /\ run[p].cmd = "get_session"
    /\ run[p].pc = "get_session"
    /\ \E sts \in StsAnswers :
            LET c == run[p].cfg
                got == get_session(c.profile_name, c.role_arn, c.region_name,
                                   c.session_name, sts)
            IN Become(p, [run[p] EXCEPT
                            !.pc = IF got.raised THEN "raised" ELSE "returned",
                            !.calls = got.calls,
                            !.docs = IF got.raised THEN <<>> ELSE <<got.session>>])
    /\ UNCHANGED <<provider, runs, lastPut>>

NextGetSession == CallGetSession("p1")

SpecGetSession == InitGetSession /\ [][NextGetSession]_vars

\* SpecSanitize: sanitize_account_name called on its own; the names are a
\* head, a run of letters and a tail, with runs that end around the limit;
\* pc = "sanitized" stands for its return, with the result in email
Pad(k) == [i \in 1..k |-> "a"]
PadLens == {0, 1, NameLimit - 2, NameLimit - 1, NameLimit}
Heads == {<<>>, <<" ">>, <<"-">>, <<"A", "!">>}
Tails == {<<>>, <<"-", "b">>, <<"-", "-", "B">>, <<"!", " ">>, <<"_", "9", "-">>}
SanitizeInputs == {h \o Pad(k) \o t : h \in Heads, k \in PadLens, t \in Tails}

InitSanitize ==
    /\ ssm = [exists |-> TRUE, value |-> <<"9">>]
    /\ requests = <<>>
    /\ accounts = InitAccounts
    /\ ous = InitOus
    /\ \E name \in SanitizeInputs :
            run = [p \in Procs |->
                     IF p = "p1"
                     THEN [IdleRun EXCEPT !.pc = "sanitize", !.cmd = "sanitize",
                             !.cfg = [dry_run |-> FALSE, account_name |-> name]]
                     ELSE IdleRun]
    /\ runs = 1
    /\ lastPut = NoPut

CallSanitize(p) ==
    /\ run[p].cmd = "sanitize"
    /\ run[p].pc = "sanitize"
    /\ Become(p, [run[p] EXCEPT !.pc = "sanitized",
                    !.email = sanitize_account_name(run[p].cfg.account_name)])
    /\ UNCHANGED <<provider, runs, lastPut>>

NextSanitize == CallSanitize("p1")

SpecSanitize == InitSanitize /\ [][NextSanitize]_vars

\* SpecGenerateEmail: generate_email called on its own with its
\* configuration, number and name drawn from small sets; pc = "generated"
\* stands for its return, with the result in email
EmailInputs ==
    [config : [email : [prefix : {<<"w", "i", "l", "l">>, <<"a">>, <<>>},
                        domain : {<<"c", "r", "o", "f", "t", "o", "n", ".", "c", "l", "o", "u", "d">>,
                                  <<"x", ".", "y">>}]],
     unique_number : {-1, 0, 5, 10, 100},
     account_name : {<<"M", "y", " ", "A", "c", "c", "o", "u", "n", "t", "!">>,
                     <<"m", "y", "-", "a", "c", "c", "o", "u", "n", "t">>,
                     <<"p", "r", "o", "d">>, <<"!">>}]

InitGenerateEmail ==
    /\ ssm = [exists |-> TRUE, value |-> <<"9">>]
    /\ requests = <<>>
    /\ accounts = InitAccounts
    /\ ous = InitOus
    /\ \E c \in EmailInputs :
            run = [p \in Procs |->
                     IF p = "p1"
                     THEN [IdleRun EXCEPT !.pc = "generate", !.cmd = "generate_email",
                             !.cfg = c]
                     ELSE IdleRun]
    /\ runs = 1
    /\ lastPut = NoPut

CallGenerateEmail(p) ==
    /\ run[p].cmd = "generate_email"
    /\ run[p].pc = "generate"
    /\ LET c == run[p].cfg
       IN Become(p, [run[p] EXCEPT !.pc = "generated",
                       !.email = generate_email(c.config, c.unique_number, c.account_name)])
    /\ UNCHANGED <<provider, runs, lastPut>>

NextGenerateEmail == CallGenerateEmail("p1")

SpecGenerateEmail == InitGenerateEmail /\ [][NextGenerateEmail]_vars

\* SpecValidateConfig: validate_config called on its own with the fields it
\* reads drawn from absent, empty and set; pc = "returned" stands for its
\* return with the configuration in docs, "aborted" for sys.exit(1) and
\* "raised" for an exception passing through
EmailSections ==
    [kind : {"absent", "null"}, domain : {None}, prefix : {None}]
        \cup [kind : {"map"}, domain : {None, "", "d"}, prefix : {None, "", "p"}]

RawConfigs ==
    [mgmt_profile : {None, "", "mgmt"},
     management_role_arn : {None, "", "arn:M"},
     email_override : {None, "", "o@x"},
     ssm_parameter_path : {None, "", "/p"},
     automation_profile : {None, "auto"},
     automation_role_arn : {None, "arn:A"},
     email : EmailSections]

InitValidateConfig ==
    /\ ssm = [exists |-> TRUE, value |-> <<"9">>]
    /\ requests = <<>>
    /\ accounts = InitAccounts
    /\ ous = InitOus
    /\ \E c \in RawConfigs :
            run = [p \in Procs |->
                     IF p = "p1"
                     THEN [IdleRun EXCEPT !.pc = "validate_config",
                             !.cmd = "validate_config", !.cfg = c]
                     ELSE IdleRun]
    /\ runs = 1
    /\ lastPut = NoPut

CallValidateConfig(p) ==
    /\ run[p].cmd = "validate_config"
    /\ run[p].pc = "validate_config"
    /\ LET got == validate_config(run[p].cfg)
       IN Become(p, IF got.outcome = "returned"
                    THEN [run[p] EXCEPT !.pc = "returned", !.docs = <<got.config>>]
                    ELSE IF got.outcome = "exit" THEN Abort(run[p], got.error)
                    ELSE [run[p] EXCEPT !.pc = "raised", !.exit = 1, !.error = got.error])
    /\ UNCHANGED <<provider, runs, lastPut>>

NextValidateConfig == CallValidateConfig("p1")

SpecValidateConfig == InitValidateConfig /\ [][NextValidateConfig]_vars

\* SpecLive: Spec with the invoked program running on: a run that has a next
\* statement executes it, every remote call and the operator's input returning.
\* The provider's own progress is under no such condition.
RunStep(p) ==
    \/ CounterPathStep(p, ValidationOutcomes)
    \/ OverrideStep(p)
    \/ CloseStep(p)

SpecLive == Init /\ [][Next]_vars /\ WF_vars(RunStep("p1"))

\* ------------------------------------------------------- reading the runs
Mutating == {"create_account", "move_account", "put_parameter", "close_account"}
OuCalls == {"list_roots", "list_organizational_units_for_parent", "list_parents",
            "move_account"}

Issued(r, api) == \E i \in 1..Len(r.calls) : r.calls[i].api = api
Count(r, api) == Cardinality({i \in 1..Len(r.calls) : r.calls[i].api = api})
LastFetch(r) == IF r.fetches = <<>> THEN "" ELSE r.fetches[Len(r.fetches)]

\* the phase of the create workflow a call belongs to (0: sessions, identities
\* and the counter read)
PhaseOf(c) ==
    CASE c.api = "create_account" -> 3
      [] c.api = "describe_create_account_status" -> 4
      [] c.api \in OuCalls -> 5
      [] c.api = "assume_role" \/ c.who = "assumed" -> 6
      [] c.api = "put_parameter" -> 7
      [] OTHER -> 0

CreateRuns == {p \in Procs : run[p].cmd = "create"}

\* ----------------------------------------------------------------- claims

\* C1: in a create-account run the phases come in the order create, poll to
\* SUCCEEDED, OU placement (unless skipped), validation, counter increment,
\* each at most once; the counter is written only on the counter path, only
\* after every earlier phase completed, and nothing follows that write.
C1_PhaseOrder ==
    \A p \in CreateRuns :
        LET r == run[p]
            n == Len(r.calls)
        IN /\ \A i, j \in 1..n :
                (i < j /\ PhaseOf(r.calls[i]) >= 3 /\ PhaseOf(r.calls[j]) >= 3)
                    => PhaseOf(r.calls[i]) <= PhaseOf(r.calls[j])
           /\ Count(r, "create_account") <= 1
           /\ Count(r, "move_account") <= 1
           /\ Count(r, "put_parameter") <= 1
           /\ (\E i \in 1..n : PhaseOf(r.calls[i]) >= 4) => Issued(r, "create_account")
           /\ (\E i \in 1..n : PhaseOf(r.calls[i]) >= 5) => LastFetch(r) = "SUCCEEDED"
           /\ Issued(r, "assume_role") =>
                IF r.skip_ou THEN \A i \in 1..n : r.calls[i].api \notin OuCalls
                ELSE Issued(r, "list_parents")
           /\ Issued(r, "put_parameter") =>
                /\ r.cfg.email_override = <<>>
                /\ r.uniq # <<>>
                /\ r.email = generate_email(DefaultConfig, r.uniq[1], r.cfg.account_name)
                /\ LastFetch(r) = "SUCCEEDED"
                /\ Issued(r, "assume_role")
                /\ r.validated \/ r.vattempt = ValidationAttempts
                /\ r.calls[n].api = "put_parameter"
                /\ r.pc = "done" /\ r.error = ""

\* a run that went through every phase: moved, validated late, incremented
C1_Witness ==
    \E p \in CreateRuns :
        /\ run[p].pc = "done"
        /\ Issued(run[p], "move_account")
        /\ run[p].vattempt > 1
        /\ Issued(run[p], "put_parameter")

\* C6: with an email override a create-account run makes no call as the
\* automation identity, neither reads nor writes the counter, and no step
\* taken while it is the current run changes the stored counter.
C6_OverrideLeavesCounter ==
    [][\A p \in Procs :
        (run'[p].cmd = "create" /\ run'[p].cfg.email_override # <<>>) =>
            /\ \A i \in 1..Len(run'[p].calls) :
                    /\ run'[p].calls[i].who # "automation"
                    /\ run'[p].calls[i].api \notin {"get_parameter", "put_parameter"}
            /\ run'[p].uniq = <<>>
            /\ ssm' = ssm]_vars

\* an override run that completed, on a store holding a readable counter
C6_Witness ==
    \E p \in CreateRuns :
        /\ run[p].cfg.email_override # <<>>
        /\ run[p].pc = "done"
        /\ ~run[p].cfg.dry_run
        /\ ssm.exists /\ ParseInt(ssm.value).ok

\* C7: with --dry-run no step of the run issues create_account, move_account,
\* put_parameter or close_account, and no step of the run changes the
\* provider's accounts, requests or counter.
C7_DryRunMutatesNothing ==
    [][\A p \in Procs :
        (run'[p].cfg.dry_run /\ run'[p] # run[p]) =>
            /\ \A i \in 1..Len(run'[p].calls) : run'[p].calls[i].api \notin Mutating
            /\ UNCHANGED <<ssm, requests, accounts, ous>>]_vars

\* a dry run of a single close that found its account active and reported
C7_Witness ==
    \E p \in Procs :
        /\ run[p].cmd = "close" /\ run[p].cfg.dry_run
        /\ run[p].pc = "done" /\ run[p].target # 0
        /\ run[p].docs # <<>> /\ run[p].docs[1].kind = "dry_run"

Polled(r) == r.cmd = "create" /\ r.reqId # 0
AllInProgress(r) == \A i \in 1..Len(r.fetches) : r.fetches[i] = "IN_PROGRESS"

\* C8: poll_account_creation returns (with the request's account id) exactly
\* when its latest fetch, the N-th with N <= max_attempts, is the first to
\* report SUCCEEDED; it aborts exactly when a fetch reports FAILED, which is
\* then the last fetch, or after max_attempts fetches that all reported
\* IN_PROGRESS; every fetch before the last reported IN_PROGRESS.
C8_PollOutcome ==
    \A p \in Procs :
        LET r == run[p]
            n == Len(r.fetches)
        IN Polled(r) =>
            /\ n <= r.cfg.max_attempts
            /\ \A i \in 1..(n - 1) : r.fetches[i] = "IN_PROGRESS"
            /\ (r.pc # "poll" /\ r.error \notin {"creation_failed", "creation_timeout"})
                    <=> LastFetch(r) = "SUCCEEDED"
            /\ LastFetch(r) = "SUCCEEDED" => r.acct = requests[r.reqId].acct /\ r.acct # 0
            /\ r.error = "creation_failed" <=> LastFetch(r) = "FAILED"
            /\ r.error = "creation_timeout" <=>
                    (n = r.cfg.max_attempts /\ AllInProgress(r) /\ r.pc # "poll")
            /\ r.error \in {"creation_failed", "creation_timeout"} => r.pc = "aborted"
            /\ r.pc = "poll" => AllInProgress(r)

\* the poll returned on its last allowed fetch, after seeing IN_PROGRESS
C8_Witness ==
    \E p \in Procs :
        /\ Polled(run[p])
        /\ Len(run[p].fetches) = run[p].cfg.max_attempts
        /\ Len(run[p].fetches) >= 2
        /\ LastFetch(run[p]) = "SUCCEEDED"
        /\ run[p].pc = "ou"

PollFailed(r) == Polled(r) /\ LastFetch(r) = "FAILED"
PollTimedOut(r) ==
    Polled(r) /\ Len(r.fetches) = r.cfg.max_attempts /\ AllInProgress(r) /\ r.pc # "poll"

\* C9: when polling ends in FAILED or in a timeout the run is aborted with
\* exit code 1 and the last status fetch is its last call: no OU lookup, no
\* move, no validation, no counter write, no result document.
C9_PollAbort ==
    \A p \in Procs :
        LET r == run[p]
        IN (PollFailed(r) \/ PollTimedOut(r)) =>
            /\ r.pc = "aborted" /\ r.exit = 1
            /\ r.calls[Len(r.calls)].api = "describe_create_account_status"
            /\ \A i \in 1..Len(r.calls) :
                    r.calls[i].api \notin OuCalls \cup {"assume_role", "put_parameter"}
            /\ r.docs = <<>>
            /\ ~lastPut.seen

\* a run aborted by a request that failed after having been in progress
C9_Witness ==
    \E p \in Procs :
        /\ PollFailed(run[p])
        /\ Len(run[p].fetches) >= 2
        /\ run[p].pc = "aborted"

\* the lookup by name was made and found no OU
LookupMissed(r) ==
    /\ r.cmd = "create" /\ r.cfg.ou_id = "" /\ ~r.skip_ou
    /\ Issued(r, "list_roots")
    /\ find_ou_by_name(ous, r.cfg.default_ou_name).ou = ""

\* C10: when the OU is looked up by name and none has it, the run is aborted
\* with exit code 1 after the account was created: no move, no validation,
\* no counter write, no closure of the created account, no result document.
C10_MissingOuAbort ==
    \A p \in Procs :
        LET r == run[p]
        IN LookupMissed(r) =>
            /\ r.pc = "aborted" /\ r.exit = 1 /\ r.error = "ou_not_found"
            /\ LastFetch(r) = "SUCCEEDED"
            /\ HasAccount(accounts, r.acct)
            /\ accounts[AccountIndex(accounts, r.acct)].status = "ACTIVE"
            /\ ~accounts[AccountIndex(accounts, r.acct)].closing
            /\ accounts[AccountIndex(accounts, r.acct)].parent = Root
            /\ \A i \in 1..Len(r.calls) :
                    r.calls[i].api \notin {"list_parents", "move_account", "assume_role",
                                           "put_parameter", "close_account"}
            /\ r.docs = <<>>
            /\ ~lastPut.seen

\* a counter-path run that created its account and then missed the OU
C10_Witness ==
    \E p \in Procs :
        /\ LookupMissed(run[p])
        /\ run[p].cfg.default_ou_name = "Nope"
        /\ run[p].uniq # <<>>
        /\ run[p].pc = "aborted"

Created(q) == q.state = "SUCCEEDED" /\ q.num # <<>>

\* C2 as stated: no two created accounts got emails generated from the same
\* counter value.
C2_NoSharedNumber ==
    \A i, j \in 1..Len(requests) :
        (i # j /\ Created(requests[i]) /\ Created(requests[j]))
            => requests[i].num # requests[j].num

\* C2 as amended: among sequential runs, no two created accounts whose runs
\* went on to increment the counter got emails from the same counter value.
C2_NoSharedNumberWhenCounted ==
    \A i, j \in 1..Len(requests) :
        (i # j /\ Created(requests[i]) /\ Created(requests[j])
              /\ requests[i].counted /\ requests[j].counted)
            => requests[i].num # requests[j].num

\* two runs in a row completed and incremented
C2_Witness ==
    \E i, j \in 1..Len(requests) :
        /\ i # j
        /\ Created(requests[i]) /\ Created(requests[j])
        /\ requests[i].counted /\ requests[j].counted

\* C3 as stated: no write lowers the stored counter.
C3_NeverLowered ==
    [][ssm' # ssm => StoredNumber(ssm') >= StoredNumber(ssm)]_vars

\* C3 as amended: while at most two runs have been started, overlapping in
\* any way, no write lowers the stored counter.
C3_NeverLoweredByTwo ==
    [][(runs' <= 2 /\ ssm' # ssm) => StoredNumber(ssm') >= StoredNumber(ssm)]_vars

\* two overlapping runs read the same value; the second write changed nothing
C3_Witness ==
    /\ runs = 2
    /\ lastPut.seen /\ lastPut.before = lastPut.after
    /\ \A p \in Procs : run[p].pc = "done"

\* C4: when the current runs of two operators both read the same number and
\* both incremented, the counter stands one above that number: it advanced
\* by one for the two of them.
C4_LostUpdate ==
    \A p, q \in Procs :
        (p # q /\ run[p].pc = "done" /\ run[q].pc = "done"
              /\ run[p].uniq # <<>> /\ run[p].uniq = run[q].uniq)
            => StoredNumber(ssm) = run[p].uniq[1] + 1

\* two runs read the same number, both had their accounts created with
\* emails built from it, both incremented, and the counter advanced by one
C4_Witness ==
    \E p, q \in Procs :
        /\ p # q /\ run[p].pc = "done" /\ run[q].pc = "done"
        /\ run[p].uniq # <<>> /\ run[p].uniq = run[q].uniq
        /\ Created(requests[run[p].reqId]) /\ Created(requests[run[q].reqId])
        /\ requests[run[p].reqId].num = run[p].uniq
        /\ requests[run[q].reqId].num = run[p].uniq
        /\ requests[run[p].reqId].email # requests[run[q].reqId].email
        /\ StoredNumber(ssm) = run[p].uniq[1] + 1

\* C5: the increment step stores str(observed + 1) whatever the store held,
\* and returns observed + 1.
C5_UnconditionalWrite ==
    [][\A p \in Procs :
        (run[p].pc = "increment" /\ run'[p].pc = "done" /\ run[p].uniq # <<>>) =>
            /\ ssm' = [exists |-> TRUE, value |-> Str(run[p].uniq[1] + 1)]
            /\ lastPut'.ret = run[p].uniq[1] + 1]_vars

\* an increment that overwrote a value other than the one it had observed
C5_Witness ==
    /\ lastPut.seen
    /\ StoredNumber(lastPut.before) # lastPut.observed
    /\ ssm = lastPut.after

\* the run used up its validation attempts: the last allowed one failed
ValidationExhausted(r) ==
    /\ r.cmd = "create"
    /\ r.pc # "validate"
    /\ r.vattempt = ValidationAttempts
    /\ r.vlast \notin {"", "ok"}

\* C11: a run whose validation attempts are all used up is never aborted: it
\* holds validated = false, goes on to the counter step, and the document it
\* ends with has status SUCCEEDED and validated = false.
C11_ExhaustedValidationContinues ==
    \A p \in Procs :
        LET r == run[p]
        IN ValidationExhausted(r) =>
            /\ r.pc \in {"increment", "done"}
            /\ r.exit = 0 /\ r.error = ""
            /\ ~r.validated
            /\ Count(r, "assume_role") = ValidationAttempts
            /\ r.pc = "done" =>
                /\ Len(r.docs) = 1
                /\ r.docs[1].kind = "created"
                /\ r.docs[1].status = "SUCCEEDED"
                /\ r.docs[1].validated = FALSE
                /\ r.docs[1].account_id = r.acct

\* a counter-path run that failed every validation attempt and still
\* incremented and reported
C11_Witness ==
    \E p \in Procs :
        /\ ValidationExhausted(run[p])
        /\ run[p].pc = "done"
        /\ Issued(run[p], "put_parameter")
        /\ run[p].docs[1].validated = FALSE

ValidateCalls == {p \in Procs : run[p].cmd = "validate"}
\* every attempt so far failed and the function has returned
AllAttemptsFailed(r) == r.pc # "validate" /\ r.vlast # "ok"

\* C12 as stated: when every attempt fails there are max_attempts attempts and
\* max_attempts - 1 sleeps, the k-th lasting
\* min(initial_delay * 2^(k-1), max_delay).
C12_BackoffSleeps ==
    \A p \in ValidateCalls :
        LET r == run[p]
        IN AllAttemptsFailed(r) =>
            /\ Count(r, "assume_role") = r.cfg.max_attempts
            /\ Len(r.sleeps) = r.cfg.max_attempts - 1
            /\ \A k \in 1..Len(r.sleeps) :
                    r.sleeps[k] = Min(r.cfg.initial_delay * 2^(k - 1), r.cfg.max_delay)

\* C12 as amended: when every attempt fails there are max_attempts attempts
\* and max_attempts - 1 sleeps; the first lasts initial_delay and the k-th,
\* k >= 2, lasts min(initial_delay * 2^(k-1), max_delay); the last attempt is
\* followed by no sleep.
C12_BackoffSleepsAfterFirst ==
    \A p \in ValidateCalls :
        LET r == run[p]
        IN AllAttemptsFailed(r) =>
            /\ Count(r, "assume_role") = r.cfg.max_attempts
            /\ Len(r.sleeps) = r.cfg.max_attempts - 1
            /\ \A k \in 1..Len(r.sleeps) :
                    r.sleeps[k] = IF k = 1 THEN r.cfg.initial_delay
                                  ELSE Min(r.cfg.initial_delay * 2^(k - 1), r.cfg.max_delay)
            /\ r.calls[Len(r.calls)].api \in {"assume_role", "get_caller_identity"}

\* four failed attempts with initial_delay 5 and max_delay 30: sleeps 5, 10, 20
C12_Witness ==
    \E p \in ValidateCalls :
        /\ AllAttemptsFailed(run[p])
        /\ run[p].cfg.max_attempts = 4
        /\ run[p].sleeps = <<5, 10, 20>>

\* C13: validate_account_access returns true exactly on the first attempt k,
\* k <= max_attempts, whose role assumption and identity check both succeed;
\* it has then made k attempts and slept k - 1 times and makes no further
\* attempt.  An attempt that fails, at the assumption or at the identity check
\* alone, is followed by a sleep and another attempt while attempts remain,
\* and by the return of false when none remains.
C13_FirstSuccessReturns ==
    [][\A p \in Procs :
        LET r == run[p]
            n == run'[p]
            k == r.vattempt
        IN (r.cmd = "validate" /\ n # r) =>
            /\ r.pc = "validate" /\ ~r.validated /\ r.vlast # "ok"
            /\ k <= r.cfg.max_attempts
            /\ Count(n, "assume_role") = k
            /\ n.validated <=> n.vlast = "ok"
            /\ n.vlast = "ok" =>
                /\ n.pc = "increment"
                /\ Len(n.sleeps) = k - 1
                /\ n.calls[Len(n.calls)] = Call("assumed", "get_caller_identity")
            /\ n.vlast # "ok" =>
                IF k < r.cfg.max_attempts
                THEN /\ n.pc = "validate" /\ n.vattempt = k + 1
                     /\ Len(n.sleeps) = k
                ELSE /\ n.pc = "increment" /\ ~n.validated
                     /\ Len(n.sleeps) = k - 1
            /\ n.vlast = "identity_fails" =>
                n.calls[Len(n.calls)] = Call("assumed", "get_caller_identity")]_vars

\* true returned on the third attempt, after a failed assumption and a failed
\* identity check, with two sleeps
C13_Witness ==
    \E p \in ValidateCalls :
        LET r == run[p]
        IN /\ r.validated /\ r.pc = "increment"
           /\ r.vattempt = 3 /\ Len(r.sleeps) = 2
           /\ r.calls = <<Call("mgmt", "assume_role"),
                          Call("mgmt", "assume_role"), Call("assumed", "get_caller_identity"),
                          Call("mgmt", "assume_role"), Call("assumed", "get_caller_identity")>>

MoveCalls == {p \in Procs : run[p].cmd = "move"}
ParentOf(accts, id) == accts[AccountIndex(accts, id)].parent

\* C14: a call of move_account_to_ou issues no move_account when the account's
\* parent is the destination and exactly one otherwise, from that parent to
\* the destination; a call that follows a call to the same destination
\* issues none, so the two issue at most one.
C14_MoveOnlyWhenElsewhere ==
    [][\A p \in Procs :
        LET r == run[p]
            n == run'[p]
            source == ParentOf(accounts, r.acct)
            destination == n.ou_id
        IN (r.cmd = "move" /\ n # r) =>
            /\ Count(n, "list_parents") = Count(r, "list_parents") + 1
            /\ Count(n, "move_account") = Len(n.moves)
            /\ IF source = destination
               THEN n.moves = r.moves /\ accounts' = accounts
               ELSE /\ n.moves = Append(r.moves,
                                    MoveRequest(r.acct, source, destination))
                    /\ ParentOf(accounts', r.acct) = destination
            /\ (r.idx >= 1 /\ r.ou_id = destination) => n.moves = r.moves
            /\ \A i \in 1..Len(accounts) :
                    accounts[i].id # r.acct => accounts'[i] = accounts[i]]_vars

\* two calls in a row to the same destination, one move between them
C14_Witness ==
    \E p \in MoveCalls :
        /\ run[p].idx = 2
        /\ run[p].ou_id = "ou-b"
        /\ run[p].moves = <<MoveRequest(run[p].acct, "ou-a", "ou-b")>>
        /\ Count(run[p], "list_parents") = 2
        /\ ParentOf(accounts, run[p].acct) = "ou-b"

FindOuCalls == {p \in Procs : run[p].cmd = "find_ou" /\ run[p].pc = "done"}

\* the OUs of a tree in pre-order: an OU, then its descendants, then the
\* later OUs of the same parent
RECURSIVE PreOrder(_, _)
PreOrder(t, kids) ==
    IF kids = <<>> THEN <<>>
    ELSE <<Head(kids)>> \o PreOrder(t, OuChildren(t, Head(kids).id))
                        \o PreOrder(t, Tail(kids))

\* C15: find_ou_by_name returns an OU bearing the name if and only if some OU
\* of the tree, at any depth, bears it; the OU returned is the first bearing
\* it in pre-order; it returns None when no OU bears the name.
C15_FirstInPreOrder ==
    \A p \in FindOuCalls :
        LET r == run[p]
            name == r.cfg.ou_name
            order == PreOrder(ous, OuChildren(ous, Root))
            bearing == SelectSeq(order, LAMBDA o : o.name = name)
        IN /\ Len(order) = Len(ous)
           /\ r.ou_id # "" <=> \E i \in 1..Len(ous) : ous[i].name = name
           /\ r.ou_id # "" => r.ou_id = Head(bearing).id /\ r.ou_name = name
           /\ r.ou_id = "" => bearing = <<>>

\* two OUs bear the name: one at depth two under the first OU of the root,
\* one directly under the root and listed later; the deeper one is returned
C15_Witness ==
    \E p \in FindOuCalls :
        /\ run[p].cfg.ou_name = "Prod"
        /\ ous = <<[id |-> "ou-a", name |-> "Dev", parent |-> Root],
                   [id |-> "ou-b", name |-> "Prod", parent |-> Root],
                   [id |-> "ou-c", name |-> "Prod", parent |-> "ou-a"]>>
        /\ run[p].ou_id = "ou-c"

\* a create-account run with an email override and neither OU name nor OU id
NoOuGiven(r) ==
    /\ r.cmd = "create"
    /\ r.cfg.email_override # <<>>
    /\ r.cfg.default_ou_name = "" /\ r.cfg.ou_id = ""

\* C16: with an email override and no OU name or id, the run issues no OU
\* lookup, no list_parents and no move_account, the created account stays
\* under the parent the provider gave it, the run goes from the poll to
\* validation, and its result carries no OU.
C16_OuPlacementOmitted ==
    \A p \in Procs :
        LET r == run[p]
        IN NoOuGiven(r) =>
            /\ \A i \in 1..Len(r.calls) : r.calls[i].api \notin OuCalls
            /\ r.moves = <<>>
            /\ r.ou_id = "" /\ r.ou_name = ""
            /\ r.pc \notin {"ou", "move"} \/ (r.pc = "ou" /\ r.skip_ou)
            /\ LastFetch(r) = "SUCCEEDED" =>
                /\ r.pc \in {"ou", "validate", "increment", "done"}
                /\ ParentOf(accounts, r.acct) = Root
            /\ (r.pc \in {"increment", "done"} /\ ~r.cfg.dry_run) =>
                    Issued(r, "assume_role")
            /\ (r.pc = "done" /\ ~r.cfg.dry_run) =>
                /\ r.docs[1].kind = "created"
                /\ r.docs[1].ou_id = "" /\ r.docs[1].ou_name = ""

\* such a run created its account, validated it and reported
C16_Witness ==
    \E p \in Procs :
        /\ NoOuGiven(run[p])
        /\ run[p].pc = "done" /\ ~run[p].cfg.dry_run
        /\ run[p].validated
        /\ run[p].docs[1].ou_id = ""

AllActive(fetches) == \A i \in 1..Len(fetches) : fetches[i] = "ACTIVE"

\* C17: each pass of poll_account_closure finds only ACTIVE fetches behind it,
\* each followed by one sleep.  With fewer than max_attempts fetches made it
\* fetches once: a status other than ACTIVE is returned at once, with no
\* further fetch or sleep (after one fetch when it is the first); ACTIVE is
\* followed by one sleep.  With max_attempts fetches made, all of them ACTIVE,
\* it returns ACTIVE without fetching.
C17_ClosurePoll ==
    [][\A p \in Procs :
        LET r == run[p]
            n == run'[p]
            k == Len(r.fetches)
            status == accounts[AccountIndex(accounts, r.target)].status
        IN (r.cmd = "poll_closure" /\ n # r) =>
            /\ AllActive(r.fetches) /\ Len(r.sleeps) = k
            /\ k <= r.cfg.max_attempts
            /\ IF k < r.cfg.max_attempts
               THEN /\ n.fetches = Append(r.fetches, status)
                    /\ Count(n, "describe_account") = k + 1
                    /\ IF status # "ACTIVE"
                       THEN /\ n.pc = "done" /\ n.docs = <<[kind |-> "returned",
                                                           status |-> status]>>
                            /\ n.sleeps = r.sleeps
                       ELSE /\ n.pc = "c_poll" /\ n.docs = <<>>
                            /\ n.sleeps = Append(r.sleeps, r.cfg.interval)
               ELSE /\ n.fetches = r.fetches /\ n.sleeps = r.sleeps
                    /\ Count(n, "describe_account") = r.cfg.max_attempts
                    /\ n.pc = "done"
                    /\ n.docs = <<[kind |-> "returned", status |-> "ACTIVE"]>>]_vars

\* the status changed between the first and the second fetch
C17_Witness ==
    \E p \in Procs :
        /\ run[p].cmd = "poll_closure" /\ run[p].pc = "done"
        /\ run[p].fetches = <<"ACTIVE", "PENDING_CLOSURE">>
        /\ run[p].sleeps = <<PollInterval>>
        /\ run[p].docs[1].status = "PENDING_CLOSURE"

CloseAccountCalls == {p \in Procs : run[p].cmd = "close_account"}

\* C18: close_account returns success exactly on the provider's acceptance
\* and on its already-closed signal, and raises on any other answer; a call
\* that follows an accepted one on the same account and is not refused
\* returns success too.
C18_CloseReportsSuccess ==
    \A p \in CloseAccountCalls :
        LET r == run[p]
        IN /\ Len(r.closed) + Len(r.failed) = r.idx
           /\ Count(r, "close_account") = r.idx
           /\ \A i \in 1..Len(r.closed) : r.closed[i] \in {"accepted", "already_closed"}
           /\ \A i \in 1..Len(r.failed) : r.failed[i] \notin {"accepted", "already_closed"}
           /\ \A i \in 1..Len(r.closed) :
                (i > 1 /\ r.closed[i - 1] = "accepted") => r.closed[i] = "already_closed"
           /\ (\E i \in 1..Len(r.closed) : r.closed[i] = "accepted") =>
                accounts[AccountIndex(accounts, r.target)].closing

\* the same account closed twice: accepted, then already closed, both successes
C18_Witness ==
    \E p \in CloseAccountCalls :
        /\ run[p].closed = <<"accepted", "already_closed">>
        /\ run[p].failed = <<>>

SingleClose(r) == r.cmd = "close" /\ r.cfg.mode # "all"
\* the accounts a single close may be looking for
Sought(r, accts) ==
    {i \in 1..Len(accts) :
        IF r.cfg.mode = "email" THEN accts[i].email = r.cfg.email
        ELSE accts[i].id = r.cfg.account_id}

\* C19: when the single close looks its account up and finds a status other
\* than ACTIVE, the run ends there with a result that reports that status; a
\* run issues close_account or polls only for the account it looked up and
\* found ACTIVE.
C19_NotActiveIsNoOp ==
    [][\A p \in Procs :
        LET r == run[p]
            n == run'[p]
        IN SingleClose(n) =>
            /\ (r.pc = "c_lookup" /\ n # r) =>
                \A i \in Sought(r, accounts) :
                    IF accounts[i].status # "ACTIVE"
                    THEN /\ n.pc = "done" /\ n.exit = 0 /\ n.target = 0
                         /\ n.docs = <<[kind |-> "closure", account_id |-> accounts[i].id,
                                        email |-> accounts[i].email,
                                        status |-> accounts[i].status]>>
                    ELSE n.pc = "c_plan" /\ n.target = accounts[i].id
            /\ n.target = 0 =>
                /\ ~Issued(n, "close_account")
                /\ n.fetches = <<>>
                /\ Count(n, "describe_account") <= 1
            /\ (r.target # 0 /\ r.cmd = "close") => n.target = r.target
            /\ (r.pc = "c_lookup" /\ n # r) => accounts' = accounts]_vars

\* a close by email of a suspended account: reported, never requested
C19_Witness ==
    \E p \in Procs :
        /\ SingleClose(run[p]) /\ run[p].cfg.mode = "email"
        /\ ~run[p].cfg.dry_run
        /\ run[p].pc = "done"
        /\ run[p].docs[1].status = "SUSPENDED"
        /\ ~Issued(run[p], "close_account")

\* a bulk closure past its confirmation
ConfirmedBulk(r) == r.cmd = "close" /\ r.cfg.mode = "all" /\ r.idx >= 1
SeqRange(s) == {s[i] : i \in 1..Len(s)}

\* C20: a confirmed bulk closure is never aborted; an account whose closure
\* request or poll raised is put in failed and the loop goes on.  Each account
\* listed as ACTIVE gets one closure request, in listing order, and ends in
\* closed or in failed; the run ends with the aggregated report.
C20_BulkIsolatesFailures ==
    \A p \in Procs :
        LET r == run[p]
            handled == Len(r.closed) + Len(r.failed)
        IN ConfirmedBulk(r) =>
            /\ r.pc \in {"c_bulk", "c_bulk_poll", "done"}
            /\ r.error = ""
            /\ r.idx <= Len(r.active)
            /\ {r.closed[i].id : i \in 1..Len(r.closed)} \cup SeqRange(r.failed)
                    = {r.active[i] : i \in 1..handled}
            /\ r.pc = "c_bulk" => handled = r.idx - 1 /\ Count(r, "close_account") = r.idx - 1
            /\ r.pc = "c_bulk_poll" => handled = r.idx - 1 /\ Count(r, "close_account") = r.idx
            /\ r.pc = "done" =>
                /\ handled = Len(r.active)
                /\ Count(r, "close_account") = Len(r.active)
                /\ r.exit = 0
                /\ r.docs = <<BulkReport(r, r.target)>>
                /\ r.docs[1].closed_count + r.docs[1].failed_count = Len(r.active)

\* both listed accounts failed, one at least in its poll, and the report was
\* still emitted
C20_Witness ==
    \E p \in Procs :
        /\ ConfirmedBulk(run[p])
        /\ run[p].pc = "done"
        /\ run[p].failed = run[p].active
        /\ Len(run[p].active) = 2
        /\ Count(run[p], "describe_account") >= 1

\* the run ended with the report of a bulk closure
BulkReported(r) ==
    /\ r.cmd = "close" /\ r.cfg.mode = "all" /\ r.pc = "done"
    /\ r.docs # <<>> /\ r.docs[1].kind = "bulk"
SeqIds(s) == {s[i].id : i \in 1..Len(s)}
Members(accts) == {accts[i].id : i \in {j \in 1..Len(accts) : accts[j].id # MgmtId}}
StatusOf(accts, id) == accts[AccountIndex(accts, id)].status

\* C21: in the report of a bulk closure every member account is in exactly
\* one of closed, failed, skipped, once; skipped holds exactly the members
\* that were not ACTIVE when listed; the three counts add up to total.
C21_ReportPartitions ==
    \A p \in Procs :
        LET r == run[p]
            doc == r.docs[1]
            closed == SeqIds(doc.closed)
            failed == SeqRange(doc.failed)
            skipped == SeqRange(doc.skipped)
        IN BulkReported(r) =>
            /\ closed \cup failed \cup skipped = Members(accounts)
            /\ closed \cap failed = {} /\ closed \cap skipped = {}
            /\ failed \cap skipped = {}
            /\ Cardinality(closed) = Len(doc.closed)
            /\ Cardinality(failed) = Len(doc.failed)
            /\ Cardinality(skipped) = Len(doc.skipped)
            /\ skipped = {id \in Members(accounts) : StatusOf(accounts, id) # "ACTIVE"}
            /\ doc.closed_count = Len(doc.closed)
            /\ doc.failed_count = Len(doc.failed)
            /\ doc.skipped_count = Len(doc.skipped)
            /\ doc.total = Cardinality(Members(accounts))
            /\ doc.closed_count + doc.failed_count + doc.skipped_count = doc.total

\* three active accounts of which the second failed, and two already closed:
\* 2 closed, 1 failed, 2 skipped of 5
C21_Witness ==
    \E p \in Procs :
        /\ BulkReported(run[p])
        /\ Len(run[p].active) = 3
        /\ run[p].docs[1].failed = <<run[p].active[2]>>
        /\ run[p].docs[1].closed_count = 2
        /\ run[p].docs[1].failed_count = 1
        /\ run[p].docs[1].skipped_count = 2
        /\ run[p].docs[1].total = 5

BulkRuns == {p \in Procs : run[p].cmd = "close" /\ run[p].cfg.mode = "all"}
\* the positions of the calls of an API in the run's call log
CallsOf(r, api) == {i \in 1..Len(r.calls) : r.calls[i].api = api}

\* C22: a bulk closure issues close_account only without --dry-run and after
\* it has read the answer "yes"; on any other answer it is aborted with exit
\* code 1, no close_account and no document; with --dry-run it reads no
\* answer, requests no closure, and reports the accounts it listed as ACTIVE.
C22_ConfirmedBeforeClosing ==
    \A p \in BulkRuns :
        LET r == run[p]
        IN /\ Issued(r, "close_account") =>
                /\ ~r.cfg.dry_run /\ r.cfg.confirmation = "yes"
                /\ \E i \in CallsOf(r, "input") : \A j \in CallsOf(r, "close_account") : i < j
           /\ Count(r, "input") <= 1
           /\ (Issued(r, "input") /\ r.cfg.confirmation # "yes") =>
                /\ r.pc = "aborted" /\ r.exit = 1
                /\ ~Issued(r, "close_account")
                /\ r.docs = <<>>
           /\ r.cfg.dry_run =>
                /\ ~Issued(r, "input") /\ ~Issued(r, "close_account")
                /\ r.pc # "aborted"
                /\ \A i \in 1..Len(accounts) :
                        accounts[i].status = "ACTIVE" => ~accounts[i].closing
                /\ (r.pc = "done" /\ r.active # <<>>) =>
                        r.docs = <<[kind |-> "dry_run", accounts_to_close |-> r.active,
                                    count |-> Len(r.active)]>>

\* the operator answered something other than yes: aborted, nothing closed
C22_Witness ==
    \E p \in BulkRuns :
        /\ ~run[p].cfg.dry_run
        /\ run[p].cfg.confirmation = "YES"
        /\ Len(run[p].active) >= 2
        /\ run[p].pc = "aborted" /\ run[p].exit = 1
        /\ ~Issued(run[p], "close_account")

\* the bulk closure has listed the accounts
Listed(r) == r.cmd = "close" /\ r.cfg.mode = "all" /\ r.pc \notin {"c_session", "c_list"}

WithEmail(accts, email) == {i \in 1..Len(accts) : accts[i].email = email}
First(S) == CHOOSE i \in S : \A j \in S : i <= j

\* C24: the lookup by email takes the first account of the listing with that
\* email; when no listed account has it, the run is aborted with exit code 1,
\* with no closure requested and no document.
C24_FirstWithEmail ==
    [][\A p \in Procs :
        LET r == run[p]
            n == run'[p]
            hits == WithEmail(accounts, r.cfg.email)
        IN (n.cmd = "close" /\ n.cfg.mode = "email") =>
            /\ (r.pc = "c_lookup" /\ n # r) =>
                /\ Count(n, "list_accounts") = 1
                /\ IF hits = {}
                   THEN /\ n.pc = "aborted" /\ n.exit = 1
                        /\ n.error = "account_not_found"
                   ELSE LET a == accounts[First(hits)]
                        IN IF a.status = "ACTIVE"
                           THEN n.pc = "c_plan" /\ n.target = a.id
                           ELSE /\ n.pc = "done"
                                /\ n.docs[1].account_id = a.id
                                /\ n.docs[1].status = a.status
            /\ n.error = "account_not_found" =>
                /\ n.pc = "aborted" /\ n.docs = <<>>
                /\ ~Issued(n, "close_account")
                /\ accounts' = accounts]_vars

\* two active accounts share the email: the closure of the first was requested
C24_Witness ==
    \E p \in Procs :
        /\ run[p].cmd = "close" /\ run[p].cfg.mode = "email"
        /\ Cardinality(WithEmail(accounts, run[p].cfg.email)) >= 2
        /\ run[p].target = accounts[First(WithEmail(accounts, run[p].cfg.email))].id
        /\ Issued(run[p], "close_account")
        /\ accounts[First(WithEmail(accounts, run[p].cfg.email))].closing
        /\ accounts[First(WithEmail(accounts, run[p].cfg.email))].status = "ACTIVE"

\* C25: a run has printed no document while it is under way or when it was
\* aborted, and exactly one when it completed: the result, the dry-run plan,
\* or the aggregated report of a bulk closure.
C25_OneDocument ==
    \A p \in Procs :
        LET r == run[p]
        IN /\ Len(r.docs) <= 1
           /\ r.pc = "done" <=> Len(r.docs) = 1
           /\ r.pc = "done" => r.exit = 0
           /\ r.pc = "aborted" => r.docs = <<>> /\ r.exit = 1
           /\ (r.pc = "done" /\ r.cfg.dry_run) =>
                r.docs[1].kind \in {"dry_run", "closure", "bulk"}
           /\ (r.pc = "done" /\ r.cmd = "close" /\ r.cfg.mode = "all" /\ ~r.cfg.dry_run) =>
                r.docs[1].kind = "bulk"

\* a bulk closure in which an account failed ended with its one report
C25_Witness ==
    \E p \in Procs :
        /\ run[p].cmd = "close" /\ run[p].cfg.mode = "all"
        /\ run[p].pc = "done"
        /\ Len(run[p].failed) >= 1 /\ Len(run[p].closed) >= 1
        /\ Len(run[p].docs) = 1

\* C26: a create-account dry run that is to place the account in an OU given
\* by name looks the OU up, and completes with its plan only when an OU of
\* that name exists, as the real run does.
C26_DryRunResolvesOu ==
    \A p \in CreateRuns :
        LET r == run[p]
        IN (r.cfg.dry_run /\ r.pc = "done" /\ r.cfg.ou_id = "" /\ ~SkipOu(r.cfg)) =>
            /\ Issued(r, "list_roots")
            /\ find_ou_by_name(ous, r.cfg.default_ou_name).ou # ""

GetSessionRuns == {p \in Procs : run[p].cmd = "get_session" /\ run[p].pc \in {"returned", "raised"}}
AssumeCalls(r) == SelectSeq(r.calls, LAMBDA c : c.api = "assume_role")

\* C27: get_session picks the credentials by strict precedence: with a
\* profile name it builds the profile's session and assumes no role, even if a
\* role ARN is given too; else with a role ARN it assumes that role once under
\* the given session name and builds the session from the credentials returned;
\* else it builds the session from the ambient credentials.
C27_SessionPrecedence ==
    \A p \in GetSessionRuns :
        LET r == run[p]
            c == r.cfg
        IN IF ~Falsy(c.profile_name)
           THEN /\ r.pc = "returned"
                /\ r.calls = <<>>
                /\ r.docs[1].kind = "profile"
                /\ r.docs[1].profile = c.profile_name
           ELSE IF ~Falsy(c.role_arn)
           THEN /\ Len(AssumeCalls(r)) = 1
                /\ AssumeCalls(r)[1].role_arn = c.role_arn
                /\ AssumeCalls(r)[1].session_name = c.session_name
                /\ r.pc = "returned" =>
                      /\ r.docs[1].kind = "keys"
                      /\ r.docs[1].credentials \in {"AKID", "AKID2"}
           ELSE /\ r.pc = "returned"
                /\ r.calls = <<>>
                /\ r.docs[1].kind = "ambient"

C27_Witness ==
    LET r == run["p1"]
    IN /\ "p1" \in GetSessionRuns
       /\ r.cfg.profile_name = "my-profile"
       /\ r.cfg.role_arn = "arn:TestRole"
       /\ r.docs[1].kind = "profile"
       /\ r.calls = <<>>

\* C28: without a region, get_session builds the session, and the STS client
\* of the role path, with the region us-east-1, whichever of the three paths
\* it takes; a given region is used as it is.
C28_RegionFallback ==
    \A p \in GetSessionRuns :
        LET r == run[p]
            want == IF r.cfg.region_name = None THEN "us-east-1" ELSE r.cfg.region_name
        IN /\ r.pc = "returned" => r.docs[1].region = want
           /\ \A i \in 1..Len(r.calls) : r.calls[i].api = "client" => r.calls[i].region = want

IsAlnum(c) == c \in Range(Lowers) \/ IsDigit(c)
\* ^[a-z0-9]([a-z0-9-]*[a-z0-9])?$
MatchesSafeName(s) ==
    /\ s # <<>>
    /\ IsAlnum(s[1])
    /\ IsAlnum(s[Len(s)])
    /\ \A i \in 1..Len(s) : IsSafeChar(s[i])

\* C29: whatever the name, sanitize_account_name returns the empty string or
\* a string of [a-z0-9-] that begins and ends with a letter or digit; the
\* result is at most 60 characters long and has no two hyphens in a row.
C29_SanitizedShape ==
    \A p \in Procs :
        (run[p].cmd = "sanitize" /\ run[p].pc = "sanitized") =>
            LET s == run[p].email
            IN /\ s = <<>> \/ MatchesSafeName(s)
               /\ Len(s) <= NameLimit
               /\ \A i \in 1..(Len(s) - 1) : ~(s[i] = "-" /\ s[i + 1] = "-")

\* C30: generate_email returns prefix + "+" + number + "-" + the sanitized
\* name + "@" + domain, a value fixed by its four arguments
\* (will+5-my-account@crofton.cloud for will, crofton.cloud, 5 and
\* "My Account!"), and it makes no call and leaves every store as it was.
C30_EmailComposed ==
    \A p \in Procs :
        (run[p].cmd = "generate_email" /\ run[p].pc = "generated") =>
            LET r == run[p]
                c == r.cfg
                e == r.email
                pre == c.config.email.prefix
                dom == c.config.email.domain
                num == Str(c.unique_number)
                safe == sanitize_account_name(c.account_name)
                a == Len(pre)
                b == a + 1 + Len(num)
                d == b + 1 + Len(safe)
            IN /\ Len(e) = d + 1 + Len(dom)
               /\ SubSeq(e, 1, a) = pre
               /\ e[a + 1] = "+"
               /\ SubSeq(e, a + 2, b) = num
               /\ e[b + 1] = "-"
               /\ SubSeq(e, b + 2, d) = safe
               /\ e[d + 1] = "@"
               /\ SubSeq(e, d + 2, Len(e)) = dom
               /\ (/\ pre = <<"w", "i", "l", "l">>
                   /\ dom = <<"c", "r", "o", "f", "t", "o", "n", ".", "c", "l", "o", "u", "d">>
                   /\ c.unique_number = 5
                   /\ c.account_name = <<"M", "y", " ", "A", "c", "c", "o", "u", "n", "t", "!">>)
                  => e = <<"w", "i", "l", "l", "+", "5", "-", "m", "y", "-", "a", "c", "c",
                           "o", "u", "n", "t", "@", "c", "r", "o", "f", "t", "o", "n", ".",
                           "c", "l", "o", "u", "d">>
               /\ r.calls = <<>>
               /\ ssm = [exists |-> TRUE, value |-> <<"9">>]
               /\ lastPut = NoPut

C30_Witness ==
    LET r == run["p1"]
    IN /\ r.cmd = "generate_email"
       /\ r.pc = "generated"
       /\ r.cfg.unique_number = 5
       /\ r.cfg.account_name = <<"M", "y", " ", "A", "c", "c", "o", "u", "n", "t", "!">>
       /\ r.email = <<"w", "i", "l", "l", "+", "5", "-", "m", "y", "-", "a", "c", "c",
                      "o", "u", "n", "t", "@", "c", "r", "o", "f", "t", "o", "n", ".",
                      "c", "l", "o", "u", "d">>

\* C31: the counter read gives the stored value as a decimal integer (9 for
\* "9", 4 for " 04"); when the parameter is missing or its value is no integer
\* the run is aborted with exit code 1, and no creation request has been
\* submitted by then.
C31_ReadOrAbort ==
    \A p \in CreateRuns :
        LET r == run[p]
        IN /\ (r.pc = "plan" /\ r.cfg.email_override = <<>>) =>
                /\ ssm.exists
                /\ ssm.value = <<"9">> => r.uniq = <<9>>
                /\ ssm.value = <<" ", "0", "4">> => r.uniq = <<4>>
                /\ ssm.value # <<"x">>
           /\ (Issued(r, "get_parameter") /\ (~ssm.exists \/ ssm.value = <<"x">>)) =>
                /\ r.pc = "aborted"
                /\ r.exit = 1
                /\ r.error = IF ssm.exists THEN "ssm_invalid" ELSE "ssm_not_found"
                /\ ~Issued(r, "create_account")
                /\ requests = <<>>

C31_Witness ==
    LET r == run["p1"]
    IN /\ r.cmd = "create"
       /\ r.pc = "aborted"
       /\ r.error = "ssm_invalid"
       /\ ssm.value = <<"x">>
       /\ Issued(r, "get_parameter")
       /\ ~r.cfg.dry_run

ConfigRuns ==
    {p \in Procs : run[p].cmd = "validate_config"
                   /\ run[p].pc \in {"returned", "aborted", "raised"}}
Given(v) == v \notin {None, ""}
HasEmailField(c, f) == c.email.kind = "map" /\ Given(c.email[f])

\* C32: validate_config ends the run with a non-zero exit unless a management
\* profile or role ARN is set, email override or not; with an email override
\* nothing more is asked; without one the run is ended unless the counter
\* path, an automation profile or role ARN, email.domain and email.prefix are
\* all set. What it returns is the configuration it was given.
C32_ConfigAccepted ==
    \A p \in ConfigRuns :
        LET r == run[p]
            c == r.cfg
            mgmt == Given(c.mgmt_profile) \/ Given(c.management_role_arn)
            rest == /\ Given(c.ssm_parameter_path)
                    /\ Given(c.automation_profile) \/ Given(c.automation_role_arn)
                    /\ HasEmailField(c, "domain")
                    /\ HasEmailField(c, "prefix")
        IN /\ r.pc = "returned" <=> (mgmt /\ (Given(c.email_override) \/ rest))
           /\ r.pc = "returned" => r.docs = <<c>>
           /\ r.pc # "returned" => r.exit = 1 /\ r.docs = <<>>

C32_Witness ==
    LET r == run["p1"]
    IN /\ "p1" \in ConfigRuns
       /\ r.cfg.email_override = "o@x"
       /\ r.cfg.mgmt_profile = None
       /\ r.cfg.management_role_arn = ""
       /\ r.pc = "aborted"
       /\ r.error = "mgmt_access"

\* C33: a run configured with an OU id moves the account to that id and looks
\* no OU up by name: it lists no root and no OU, is never aborted for a
\* missing OU, and the id wins over an OU name configured along with it.
C33_ExplicitOuId ==
    \A p \in CreateRuns :
        LET r == run[p]
        IN r.cfg.ou_id # "" =>
            /\ ~Issued(r, "list_roots")
            /\ ~Issued(r, "list_organizational_units_for_parent")
            /\ r.error # "ou_not_found"
            /\ \A i \in 1..Len(r.moves) : r.moves[i].DestinationParentId = r.cfg.ou_id
            /\ r.pc \in {"move", "validate", "increment", "done"} /\ ~r.cfg.dry_run
                  => r.ou_id = r.cfg.ou_id
            /\ (r.pc = "done" /\ ~r.cfg.dry_run) =>
                  /\ Issued(r, "list_parents")
                  /\ \E i \in 1..Len(accounts) :
                        accounts[i].id = r.acct /\ accounts[i].parent = r.cfg.ou_id

C33_Witness ==
    LET r == run["p1"]
    IN /\ r.cmd = "create"
       /\ r.pc = "done"
       /\ ~r.cfg.dry_run
       /\ r.cfg.ou_id = "ou-a"
       /\ r.cfg.default_ou_name = "Nope"
       /\ Len(r.moves) = 1
       /\ r.moves[1].DestinationParentId = "ou-a"

\* C34: a close-account run for one account, given by id or by email, issues
\* no closure request for the organization's management account, even when
\* the id or email given is the management account's.
C34_SingleCloseSparesManagement ==
    \A p \in Procs :
        LET r == run[p]
        IN (r.cmd = "close" /\ r.cfg.mode \in {"id", "email"}) =>
              ~(r.target = MgmtId /\ Issued(r, "close_account"))

Handled(r) == Len(r.closed) + Len(r.failed)

\* C35: a confirmed bulk closure takes the active accounts one at a time in
\* listing order: the step that issues the i-th close_account issues one, for
\* the i-th account listed as ACTIVE, when the i-1 accounts before it are all
\* in closed or failed and none is being polled; a run that has reported has
\* issued one close_account for each, and none for an account it skipped.
C35_OneAtATime ==
    [][\A p \in BulkRuns :
          LET r == run[p]
              n == run'[p]
          IN /\ Count(n, "close_account") # Count(r, "close_account") =>
                  /\ r.pc = "c_bulk"
                  /\ Count(n, "close_account") = Count(r, "close_account") + 1
                  /\ Count(r, "close_account") = r.idx - 1
                  /\ Handled(r) = r.idx - 1
                  /\ r.active[r.idx] \notin SeqRange(r.skipped)
                  /\ \A i \in 1..Len(accounts) :
                        accounts'[i] # accounts[i] => accounts[i].id = r.active[r.idx]
                  /\ Handled(n) \in {r.idx - 1, r.idx}
             /\ n.pc = "c_bulk_poll" =>
                  Count(n, "close_account") = n.idx /\ Handled(n) = n.idx - 1
             /\ (n.pc = "done" /\ n.idx >= 1) =>
                  /\ Count(n, "close_account") = Len(n.active)
                  /\ Handled(n) = Len(n.active)
    ]_vars

C35_Witness ==
    LET r == run["p1"]
    IN /\ "p1" \in BulkRuns
       /\ r.pc = "c_bulk_poll"
       /\ r.idx = 2
       /\ Len(r.closed) = 1
       /\ r.closed[1].id = r.active[1]
       /\ Count(r, "close_account") = 2
       /\ Count(r, "describe_account") >= 2

\* C36: a run on the counter path that reaches the end of access validation
\* advances the counter whether the account was validated or not: a run that
\* reports, validated or not, has written observed + 1 once (10 over "9"),
\* and a run that has not reached the end of validation has written nothing.
C36_IncrementRegardless ==
    \A p \in CreateRuns :
        LET r == run[p]
        IN (r.cfg.email_override = <<>> /\ ~r.cfg.dry_run) =>
            /\ r.pc = "done" =>
                /\ Count(r, "put_parameter") = 1
                /\ lastPut.seen /\ lastPut.by = p
                /\ lastPut.observed = r.uniq[1]
                /\ lastPut.ret = r.uniq[1] + 1
                /\ ParseInt(lastPut.after.value).val = r.uniq[1] + 1
                /\ lastPut.before.value = <<"9">> => lastPut.after.value = <<"1", "0">>
                /\ r.docs[1].validated = r.validated
            /\ r.pc # "done" => ~Issued(r, "put_parameter") /\ ~lastPut.seen

C36_Witness ==
    LET r == run["p1"]
    IN /\ r.cmd = "create"
       /\ r.pc = "done"
       /\ r.cfg.email_override = <<>>
       /\ ~r.cfg.dry_run
       /\ ~r.validated
       /\ r.docs[1].validated = FALSE
       /\ lastPut.seen
       /\ ssm.value = <<"1", "0">>

\* C37: a closure poll that used up its attempts on an account still ACTIVE
\* is no failure for its caller: the bulk closure puts the account in closed
\* with status ACTIVE, not in failed, and goes on; the single close reports
\* the account with status ACTIVE and exit code 0.
C37_TimeoutIsNoFailure ==
    [][\A p \in Procs :
          LET r == run[p]
              n == run'[p]
          IN (r.cmd = "close" /\ Len(r.fetches) = r.cfg.max_attempts /\ n # r) =>
                /\ AllActive(r.fetches)
                /\ n.calls = r.calls
                /\ r.pc = "c_bulk_poll" =>
                      /\ n.closed = Append(r.closed,
                                        [id |-> r.active[r.idx], status |-> "ACTIVE"])
                      /\ n.failed = r.failed
                      /\ n.pc = IF r.idx < Len(r.active) THEN "c_bulk" ELSE "done"
                      /\ n.exit = 0
                /\ r.pc = "c_poll" =>
                      /\ n.pc = "done" /\ n.exit = 0 /\ n.error = ""
                      /\ Len(n.docs) = 1
                      /\ n.docs[1].kind = "closure"
                      /\ n.docs[1].account_id = r.target
                      /\ n.docs[1].status = "ACTIVE"
    ]_vars

C37_Witness ==
    LET r == run["p1"]
    IN /\ "p1" \in BulkRuns
       /\ r.pc = "done"
       /\ r.failed = <<>>
       /\ Len(r.closed) = 2
       /\ r.closed[1].status = "ACTIVE"
       /\ r.docs[1].closed_count = 2
       /\ Count(r, "describe_account") >= MaxAttempts

\* the position of the last close_account in the run's call log, 0 if none
LastClose(r) ==
    IF Issued(r, "close_account")
    THEN CHOOSE i \in CallsOf(r, "close_account") :
            \A j \in CallsOf(r, "close_account") : j <= i
    ELSE 0

\* C38: with --no-wait no account status is fetched once a closure request
\* has succeeded: the single close fetches nothing after its close_account
\* and reports CLOSE_REQUESTED; the bulk closure fetches no status at all and
\* reports CLOSE_REQUESTED for every account in closed.
C38_NoWaitNoFetch ==
    \A p \in Procs :
        LET r == run[p]
        IN (r.cmd = "close" /\ r.cfg.no_wait) =>
            /\ r.fetches = <<>>
            /\ r.pc \notin {"c_poll", "c_bulk_poll"}
            /\ \A i \in CallsOf(r, "describe_account") :
                  r.cfg.mode = "id" /\ (LastClose(r) = 0 \/ i < LastClose(r))
            /\ \A i \in 1..Len(r.closed) : r.closed[i].status = "CLOSE_REQUESTED"
            /\ (r.cfg.mode # "all" /\ r.pc = "done" /\ Issued(r, "close_account")) =>
                  /\ r.docs[1].kind = "closure"
                  /\ r.docs[1].status = "CLOSE_REQUESTED"
                  /\ r.calls[Len(r.calls)].api = "close_account"
            /\ (r.cfg.mode = "all" /\ r.pc = "done" /\ r.idx >= 1) =>
                  Len(r.closed) + Len(r.failed) = Len(r.active)

C38_Witness ==
    LET r == run["p1"]
    IN /\ r.cmd = "close"
       /\ r.cfg.no_wait
       /\ r.cfg.mode = "id"
       /\ r.pc = "done"
       /\ Issued(r, "close_account")
       /\ r.docs[1].status = "CLOSE_REQUESTED"
       /\ Count(r, "describe_account") = 1

NoRepeat(s) == \A i, j \in 1..Len(s) : s[i] = s[j] => i = j

\* what the loops of a run may have done at any time
LoopsBounded(r) ==
    /\ r.cmd = "create" =>
          /\ Len(r.fetches) <= r.cfg.max_attempts
          /\ Count(r, "describe_create_account_status") <= r.cfg.max_attempts
          /\ r.vattempt <= ValidationAttempts
          /\ Count(r, "assume_role") <= ValidationAttempts
          /\ Count(r, "list_organizational_units_for_parent") <= Len(ous) + 1
          /\ NoRepeat(find_ou_by_name(ous, r.cfg.default_ou_name).listed)
    /\ r.cmd = "close" =>
          /\ Len(r.fetches) <= r.cfg.max_attempts
          /\ r.cfg.mode # "all" => Count(r, "describe_account") <= r.cfg.max_attempts + 1
          /\ r.cfg.mode = "all" =>
                /\ r.idx <= Len(r.active)
                /\ Count(r, "close_account") <= Len(r.active)
                /\ Count(r, "describe_account") <= r.cfg.max_attempts * Len(r.active)

\* C39: with every remote call returning, a create-account or close-account
\* run that was started ends with its document or an abort; on the way the
\* creation poll and each closure poll fetch at most max_attempts times,
\* validation makes at most its six attempts, the OU search lists each parent
\* at most once, and the bulk closure takes each listed account once.
C39_RunsEnd ==
    /\ [](\A p \in Procs : LoopsBounded(run[p]))
    /\ (run["p1"].pc # "idle") ~> (run["p1"].pc \in {"done", "aborted"})

C39_Witness ==
    LET r == run["p1"]
    IN /\ "p1" \in BulkRuns
       /\ r.pc = "done"
       /\ Len(r.active) = 2
       /\ Count(r, "describe_account") = 2 * r.cfg.max_attempts
       /\ Count(r, "close_account") = 2

====
